---- MODULE Spec2Model ----
(***************************************************************************)
(* Task dependency graph engine of private-tarkov-util: the shared         *)
(* selection/search state (TaskViewContext), the debounced search bar      *)
(* (TaskSearchBar), the canvas consumer (TaskFlow), the viewport helpers   *)
(* (viewport.ts) and the match engine (search.ts).                         *)
(*                                                                         *)
(* Strings are sequences of one-character strings, so that toLowerCase,    *)
(* trim, includes and startsWith are computed and not assumed.  Time is    *)
(* counted in milliseconds and advances in steps of TimeStep; a timer      *)
(* callback whose delay has elapsed runs before time advances again.       *)
(*                                                                         *)
(* Spec is the page: SelectionState, the search bar with its debounce and  *)
(* TaskFlow's renders and effects, up to the calls TaskFlow makes into     *)
(* viewport.ts (their setCenter takes effect, the calls are recorded in    *)
(* lastRender).  SpecViewport is viewport.ts itself under arbitrary calls, *)
(* with the DOM elements and the setTimeout callbacks it schedules.        *)
(***************************************************************************)
EXTENDS Integers, Sequences, FiniteSets, TLC

\* ------------------------------------------------------------------ bounds
\* granularity of the page's clock, in milliseconds
TimeStep == 50
\* granularity of the clock of the viewport timers, in milliseconds
ViewTimeStep == 500
\* number of setTimeout callbacks of viewport.ts that may be pending at once
MaxTimers == 2
\* number of tasks in an API response handed to transformTasksData
MaxTasks == 2
\* number of taskRequirements entries of one API task
MaxReqs == 2
\* number of rewards of a task handed to the match engine
MaxRewards == 2

\* ------------------------------------------------------- program constants
\* TaskSearchBar: debounceMs = 250
debounceMs == 250
\* viewport.ts DEFAULT_OPTIONS (zoom in tenths: 1.5)
DEFAULT_ZOOM == 15
DEFAULT_DURATION == 300
DEFAULT_NODE_WIDTH == 320
DEFAULT_NODE_HEIGHT == 100
\* viewport.ts DEFAULT_HIGHLIGHT_OPTIONS.duration
DEFAULT_HIGHLIGHT_DURATION == 1500
\* layoutUtils.ts defaultOptions.nodeWidth / nodeHeight, exported
NODE_WIDTH == 350
NODE_HEIGHT == 180

\* ------------------------------------------------------------------ strings
\* String.prototype.toLowerCase over the model alphabet
LowerChar(c) ==
  CASE c = "A" -> "a"
    [] c = "B" -> "b"
    [] OTHER -> c

toLowerCase(s) == [i \in 1..Len(s) |-> LowerChar(s[i])]

RECURSIVE trimStart(_)
trimStart(s) ==
  IF s # <<>> /\ Head(s) = " " THEN trimStart(Tail(s)) ELSE s

RECURSIVE trimEnd(_)
trimEnd(s) ==
  IF s # <<>> /\ s[Len(s)] = " " THEN trimEnd(SubSeq(s, 1, Len(s) - 1)) ELSE s

\* String.prototype.trim
trim(s) == trimEnd(trimStart(s))

\* String.prototype.includes
includes(s, q) ==
  \E i \in 0..(Len(s) - Len(q)) : SubSeq(s, i + 1, i + Len(q)) = q

\* String.prototype.startsWith
startsWith(s, q) ==
  Len(q) <= Len(s) /\ SubSeq(s, 1, Len(q)) = q

\* search.ts normalizeString: str.toLowerCase().trim()
normalizeString(str) == trim(toLowerCase(str))

\* ------------------------------------------------------------- task records
None == "none"

NoDescription == [present |-> FALSE, text |-> <<>>]
Description(s) == [present |-> TRUE, text |-> s]
NumberValue(n) == [isString |-> FALSE, text |-> <<>>, num |-> n]
StringValue(s) == [isString |-> TRUE, text |-> s, num |-> 0]

NullFilter == [isNull |-> TRUE, name |-> <<>>]
Merchant(n) == [isNull |-> FALSE, name |-> n]

\* the task collection handed to the page (taskDataArray): A <- B <- C, and C
\* also names a prerequisite Z that is not in the collection
taskDataArray ==
  << [taskId |-> "A", trader |-> <<"A", "b">>, taskName |-> <<"b", "a">>,
      rewards |-> << [type |-> "item", value |-> StringValue(<<"a">>),
                      description |-> Description(<<"a", " ", "b">>)] >>,
      unlockRequirements |-> <<>>],
     [taskId |-> "B", trader |-> <<"A", "b">>, taskName |-> <<"B">>,
      rewards |-> << [type |-> "money", value |-> NumberValue(100),
                      description |-> NoDescription],
                     [type |-> "item", value |-> StringValue(<<"b", "a">>),
                      description |-> Description(<<"b">>)] >>,
      unlockRequirements |-> << [type |-> "task", taskId |-> "A"],
                                [type |-> "level", taskId |-> None] >>],
     [taskId |-> "C", trader |-> <<"b">>, taskName |-> <<"a", "a">>,
      rewards |-> <<>>,
      unlockRequirements |-> << [type |-> "task", taskId |-> "B"],
                                [type |-> "task", taskId |-> "Z"] >>] >>

TaskIds == {taskDataArray[i].taskId : i \in 1..Len(taskDataArray)}

\* ------------------------------------------------------------ match engine
\* search.ts isRewardMatched
isRewardMatched(reward, normalizedQuery) ==
  IF reward.description.present /\ reward.description.text # <<>>
     /\ includes(normalizeString(reward.description.text), normalizedQuery)
  THEN TRUE
  ELSE IF reward.value.isString
          /\ includes(normalizeString(reward.value.text), normalizedQuery)
       THEN TRUE
       ELSE FALSE

\* a calculateMatchScore that tests the prefix before the exact match
calculateMatchScorePrefixFirst(reward, normalizedQuery) ==
  LET description == IF reward.description.present /\ reward.description.text # <<>>
                     THEN normalizeString(reward.description.text) ELSE <<>>
      value == IF reward.value.isString
               THEN normalizeString(reward.value.text) ELSE <<>>
  IN IF startsWith(description, normalizedQuery)
        \/ startsWith(value, normalizedQuery) THEN 50
     ELSE IF description = normalizedQuery \/ value = normalizedQuery THEN 100
     ELSE 10

\* search.ts calculateMatchScore
calculateMatchScore(reward, normalizedQuery) ==
  LET description == IF reward.description.present /\ reward.description.text # <<>>
                     THEN normalizeString(reward.description.text) ELSE <<>>
      value == IF reward.value.isString
               THEN normalizeString(reward.value.text) ELSE <<>>
  IN IF description = normalizedQuery \/ value = normalizedQuery THEN 100
     ELSE IF startsWith(description, normalizedQuery)
             \/ startsWith(value, normalizedQuery) THEN 50
     ELSE 10

\* Array.prototype.filter
RECURSIVE SelectSeqBy(_, _)
SelectSeqBy(s, keep) ==
  IF s = <<>> THEN <<>>
  ELSE IF keep[1] THEN <<Head(s)>> \o SelectSeqBy(Tail(s), Tail(keep))
       ELSE SelectSeqBy(Tail(s), Tail(keep))

matchedRewardsOf(task, normalizedQuery) ==
  SelectSeqBy(task.rewards,
              [i \in 1..Len(task.rewards) |->
                 isRewardMatched(task.rewards[i], normalizedQuery)])

RECURSIVE SumScores(_, _)
SumScores(rewards, normalizedQuery) ==
  IF rewards = <<>> THEN 0
  ELSE calculateMatchScore(Head(rewards), normalizedQuery)
       + SumScores(Tail(rewards), normalizedQuery)

\* Array.prototype.sort((a, b) => b.score - a.score): stable, descending
\* an insertion that puts an entry before the entries of equal score
RECURSIVE InsertByScoreUnstable(_, _)
InsertByScoreUnstable(sorted, m) ==
  IF sorted = <<>> THEN <<m>>
  ELSE IF m.score >= Head(sorted).score THEN <<m>> \o sorted
       ELSE <<Head(sorted)>> \o InsertByScoreUnstable(Tail(sorted), m)

RECURSIVE InsertByScore(_, _)
InsertByScore(sorted, m) ==
  IF sorted = <<>> THEN <<m>>
  ELSE IF m.score > Head(sorted).score THEN <<m>> \o sorted
       ELSE <<Head(sorted)>> \o InsertByScore(Tail(sorted), m)

\* a sort with the comparator reversed (a.score - b.score): stable, ascending
RECURSIVE InsertByScoreAscending(_, _)
InsertByScoreAscending(sorted, m) ==
  IF sorted = <<>> THEN <<m>>
  ELSE IF m.score < Head(sorted).score THEN <<m>> \o sorted
       ELSE <<Head(sorted)>> \o InsertByScoreAscending(Tail(sorted), m)

RECURSIVE SortByScoreAscending(_)
SortByScoreAscending(ms) ==
  IF ms = <<>> THEN <<>>
  ELSE InsertByScoreAscending(SortByScoreAscending(SubSeq(ms, 1, Len(ms) - 1)),
                              ms[Len(ms)])

RECURSIVE SortByScore(_)
SortByScore(ms) ==
  IF ms = <<>> THEN <<>>
  ELSE InsertByScore(SortByScore(SubSeq(ms, 1, Len(ms) - 1)), ms[Len(ms)])

RECURSIVE collectMatches(_, _)
collectMatches(tasks, normalizedQuery) ==
  IF tasks = <<>> THEN <<>>
  ELSE LET task == Head(tasks)
           matchedRewards == matchedRewardsOf(task, normalizedQuery)
           rest == collectMatches(Tail(tasks), normalizedQuery)
       IN IF Len(matchedRewards) > 0
          THEN << [taskId |-> task.taskId,
                   matchedRewards |-> matchedRewards,
                   score |-> SumScores(matchedRewards, normalizedQuery)] >> \o rest
          ELSE rest

\* a findTasksByReward that lower-cases the query without trimming it
findTasksByRewardUntrimmed(tasks, query) ==
  LET normalizedQuery == toLowerCase(query)
  IN IF normalizedQuery = <<>>
     THEN [matchedIds |-> <<>>, matches |-> <<>>]
     ELSE LET matches == SortByScore(collectMatches(tasks, normalizedQuery))
          IN [matchedIds |-> [i \in 1..Len(matches) |-> matches[i].taskId],
              matches |-> matches]

\* search.ts findTasksByReward
findTasksByReward(tasks, query) ==
  LET normalizedQuery == normalizeString(query)
  IN IF normalizedQuery = <<>>
     THEN [matchedIds |-> <<>>, matches |-> <<>>]
     ELSE LET matches == SortByScore(collectMatches(tasks, normalizedQuery))
          IN [matchedIds |-> [i \in 1..Len(matches) |-> matches[i].taskId],
              matches |-> matches]

\* an isTaskMatchedCombined that compares the trader name ignoring case
isTaskMatchedCombinedAnyCase(task, searchTerm_, rewardSearchTerm_, merchantFilter_) ==
  IF ~merchantFilter_.isNull /\ merchantFilter_.name # <<>>
     /\ toLowerCase(task.trader) # toLowerCase(merchantFilter_.name)
  THEN FALSE
  ELSE IF searchTerm_ # <<>>
          /\ ~includes(normalizeString(task.taskName), normalizeString(searchTerm_))
          /\ ~includes(normalizeString(task.trader), normalizeString(searchTerm_))
  THEN FALSE
  ELSE IF rewardSearchTerm_ # <<>>
          /\ ~(\E i \in 1..Len(task.rewards) :
                 isRewardMatched(task.rewards[i], normalizeString(rewardSearchTerm_)))
  THEN FALSE
  ELSE TRUE

\* search.ts isTaskMatchedCombined
isTaskMatchedCombined(task, searchTerm_, rewardSearchTerm_, merchantFilter_) ==
  IF ~merchantFilter_.isNull /\ merchantFilter_.name # <<>>
     /\ task.trader # merchantFilter_.name
  THEN FALSE
  ELSE IF searchTerm_ # <<>>
          /\ ~includes(normalizeString(task.taskName), normalizeString(searchTerm_))
          /\ ~includes(normalizeString(task.trader), normalizeString(searchTerm_))
  THEN FALSE
  ELSE IF rewardSearchTerm_ # <<>>
          /\ ~(\E i \in 1..Len(task.rewards) :
                 isRewardMatched(task.rewards[i], normalizeString(rewardSearchTerm_)))
  THEN FALSE
  ELSE TRUE

\* ------------------------------------------------------------ graph builder
\* TaskFlowDemo generateNodes: one node per record, in input order
generateNodes(tasks) ==
  [i \in 1..Len(tasks) |->
     [id |-> tasks[i].taskId, position |-> [x |-> 0, y |-> 0], data |-> tasks[i]]]

RECURSIVE edgesOfTask(_, _, _)
edgesOfTask(reqs, taskId, taskSet) ==
  IF reqs = <<>> THEN <<>>
  ELSE LET req == Head(reqs)
           rest == edgesOfTask(Tail(reqs), taskId, taskSet)
       IN IF req.type = "task" /\ req.taskId # None /\ req.taskId \in taskSet
          THEN << [source |-> req.taskId, target |-> taskId] >> \o rest
          ELSE rest

\* TaskFlowDemo generateEdges
RECURSIVE edgesFrom(_, _)
edgesFrom(tasks, taskSet) ==
  IF tasks = <<>> THEN <<>>
  ELSE edgesOfTask(Head(tasks).unlockRequirements, Head(tasks).taskId, taskSet)
       \o edgesFrom(Tail(tasks), taskSet)

\* a generateEdges without the taskSet.has test
generateEdgesUnchecked(tasks) ==
  edgesFrom(tasks, {tasks[i].taskId : i \in 1..Len(tasks)} \cup {"Z"})

\* TaskFlowDemo generateEdges: the edges of all tasks, in input order
generateEdges(tasks) ==
  edgesFrom(tasks, {tasks[i].taskId : i \in 1..Len(tasks)})

\* a findStartNodeId that takes the first node whatever its incoming edges
findStartNodeIdFirst(nodes, edges) ==
  IF Len(nodes) = 0 THEN None ELSE nodes[1].id

\* layoutUtils.ts findStartNodeId
findStartNodeId(nodes, edges) ==
  IF Len(nodes) = 0 THEN None
  ELSE LET targetNodeIds == {edges[i].target : i \in 1..Len(edges)}
           startNodes == SelectSeqBy(nodes,
                           [i \in 1..Len(nodes) |-> nodes[i].id \notin targetNodeIds])
       IN IF Len(startNodes) > 0 THEN startNodes[1].id ELSE nodes[1].id

\* ------------------------------------------------------------ layout engine
Max(a, b) == IF a >= b THEN a ELSE b

RECURSIVE MaxOf(_)
MaxOf(S) ==
  IF S = {} THEN 0
  ELSE LET v == CHOOSE w \in S : TRUE IN Max(v, MaxOf(S \ {v}))

\* dagre rank assignment on an acyclic graph: a node is ranked after all of
\* its direct prerequisites
RECURSIVE rankOf(_, _)
rankOf(id, edges) ==
  LET preds == {edges[i].source : i \in {j \in 1..Len(edges) : edges[j].target = id}}
  IN IF preds = {} THEN 0
     ELSE 1 + MaxOf({rankOf(p, edges) : p \in preds})

\* position of a node inside its rank: input order among the nodes of the rank
orderInRank(nodes, edges, i) ==
  Cardinality({j \in 1..(i - 1) : rankOf(nodes[j].id, edges) = rankOf(nodes[i].id, edges)})

\* a layout with the ranks laid out from top to bottom (rankdir TB)
getLayoutedElementsTopBottom(nodes, edges, opts) ==
  [i \in 1..Len(nodes) |->
     LET cx == orderInRank(nodes, edges, i) * (opts.nodeWidth + opts.nodesep)
               + opts.nodeWidth \div 2
         cy == rankOf(nodes[i].id, edges) * (opts.nodeHeight + opts.ranksep)
               + opts.nodeHeight \div 2
     IN [nodes[i] EXCEPT !.position = [x |-> cx - opts.nodeWidth \div 2,
                                       y |-> cy - opts.nodeHeight \div 2]]]

\* layoutUtils.ts getLayoutedElements (rankdir LR): dagre's centre
\* coordinates converted to the top-left corner
getLayoutedElements(nodes, edges, opts) ==
  [i \in 1..Len(nodes) |->
     LET cx == rankOf(nodes[i].id, edges) * (opts.nodeWidth + opts.ranksep)
               + opts.nodeWidth \div 2
         cy == orderInRank(nodes, edges, i) * (opts.nodeHeight + opts.nodesep)
               + opts.nodeHeight \div 2
     IN [nodes[i] EXCEPT !.position = [x |-> cx - opts.nodeWidth \div 2,
                                       y |-> cy - opts.nodeHeight \div 2]]]

\* TaskFlow.tsx: the options of the layout useMemo
TaskFlowLayoutOptions ==
  [nodeWidth |-> 320, nodeHeight |-> 100, nodesep |-> 30, ranksep |-> 80]

\* ------------------------------------------------------ viewport controller
Undefined == 0 - 1

\* an options object with no field set
NoOptions ==
  [zoom |-> Undefined, duration |-> Undefined,
   nodeWidth |-> Undefined, nodeHeight |-> Undefined]

\* viewport.ts DEFAULT_OPTIONS
DEFAULT_OPTIONS ==
  [zoom |-> DEFAULT_ZOOM, duration |-> DEFAULT_DURATION,
   nodeWidth |-> DEFAULT_NODE_WIDTH, nodeHeight |-> DEFAULT_NODE_HEIGHT]

\* { ...DEFAULT_OPTIONS, ...options }
mergeOptions(defaults, options) ==
  [f \in DOMAIN defaults |->
     IF options[f] = Undefined THEN defaults[f] ELSE options[f]]

\* the rendering surface handle: absent (null), or holding the laid-out nodes
NullInstance == [present |-> FALSE, nodes |-> <<>>]
Instance(nodes) == [present |-> TRUE, nodes |-> nodes]

\* ReactFlowInstance.getNode
hasNode(instance, nodeId) ==
  \E i \in 1..Len(instance.nodes) : instance.nodes[i].id = nodeId

getNode(instance, nodeId) ==
  instance.nodes[CHOOSE i \in 1..Len(instance.nodes) : instance.nodes[i].id = nodeId]

\* panToNode without its null check: getNode is read from a null handle
panToNodeUnguarded(reactFlowInstance_, nodeId, options) ==
  IF ~reactFlowInstance_.present
  THEN [result |-> FALSE, threw |-> TRUE, setCenter |-> <<>>]
  ELSE LET opts == mergeOptions(DEFAULT_OPTIONS, options)
       IN IF ~hasNode(reactFlowInstance_, nodeId)
          THEN [result |-> FALSE, threw |-> FALSE, setCenter |-> <<>>]
          ELSE LET node == getNode(reactFlowInstance_, nodeId)
               IN [result |-> TRUE, threw |-> FALSE,
                   setCenter |-> << [x |-> node.position.x + opts.nodeWidth \div 2,
                                     y |-> node.position.y + opts.nodeHeight \div 2,
                                     zoom |-> opts.zoom,
                                     duration |-> opts.duration] >>]

\* viewport.ts panToNode: the return value, the setCenter calls it makes and
\* whether it throws
panToNode(reactFlowInstance_, nodeId, options) ==
  IF ~reactFlowInstance_.present
  THEN \* if (!reactFlowInstance) return false
       [result |-> FALSE, threw |-> FALSE, setCenter |-> <<>>]
  ELSE LET opts == mergeOptions(DEFAULT_OPTIONS, options)
       IN IF ~hasNode(reactFlowInstance_, nodeId)
          THEN [result |-> FALSE, threw |-> FALSE, setCenter |-> <<>>]
          ELSE LET node == getNode(reactFlowInstance_, nodeId)
               IN [result |-> TRUE, threw |-> FALSE,
                   setCenter |-> << [x |-> node.position.x + opts.nodeWidth \div 2,
                                     y |-> node.position.y + opts.nodeHeight \div 2,
                                     zoom |-> opts.zoom,
                                     duration |-> opts.duration] >>]

\* HighlightNodeOptions with no field set
NoHighlightOptions == [duration |-> Undefined]

\* viewport.ts DEFAULT_HIGHLIGHT_OPTIONS
DEFAULT_HIGHLIGHT_OPTIONS == [duration |-> DEFAULT_HIGHLIGHT_DURATION]

\* a pending setTimeout callback of viewport.ts: "highlight" runs
\* highlightNode(nodeId, options), "remove" removes the highlight class
Timeout(kind, nodeId, delay, options) ==
  [kind |-> kind, nodeId |-> nodeId, rem |-> delay, options |-> options]

\* a highlightNode whose removal ignores the duration option
highlightNodeDefaultDuration(dom, nodeId, options) ==
  IF nodeId \notin dom
  THEN [found |-> FALSE, add |-> {}, timeouts |-> <<>>]
  ELSE [found |-> TRUE, add |-> {nodeId},
        timeouts |-> << Timeout("remove", nodeId, DEFAULT_HIGHLIGHT_OPTIONS.duration,
                                NoHighlightOptions) >>]

\* viewport.ts highlightNode against the rendered elements `dom`: whether
\* the element was found, the class additions and the timeouts it schedules
highlightNode(dom, nodeId, options) ==
  LET opts == mergeOptions(DEFAULT_HIGHLIGHT_OPTIONS, options)
  IN IF nodeId \notin dom
     THEN [found |-> FALSE, add |-> {}, timeouts |-> <<>>]
     ELSE [found |-> TRUE, add |-> {nodeId},
           timeouts |-> << Timeout("remove", nodeId, opts.duration,
                                   NoHighlightOptions) >>]

\* a panToNodeAndHighlight that highlights without waiting for the pan
panToNodeAndHighlightAtOnce(reactFlowInstance_, nodeId, panOptions, highlightOptions) ==
  LET success == panToNode(reactFlowInstance_, nodeId, panOptions)
  IN [result |-> success.result, threw |-> success.threw,
      setCenter |-> success.setCenter,
      timeouts |-> IF success.result
                   THEN << Timeout("highlight", nodeId, 0, highlightOptions) >>
                   ELSE <<>>]

\* viewport.ts panToNodeAndHighlight
panToNodeAndHighlight(reactFlowInstance_, nodeId, panOptions, highlightOptions) ==
  LET success == panToNode(reactFlowInstance_, nodeId, panOptions)
      panDuration == IF panOptions.duration = Undefined
                     THEN DEFAULT_OPTIONS.duration ELSE panOptions.duration
  IN [result |-> success.result, threw |-> success.threw,
      setCenter |-> success.setCenter,
      timeouts |-> IF success.result
                   THEN << Timeout("highlight", nodeId, panDuration,
                                   highlightOptions) >>
                   ELSE <<>>]

\* ------------------------------------------------------------------- state
VARIABLES
  \* TaskViewProvider (SelectionState)
  merchantFilter, searchTerm, rewardSearchTerm, selectedTaskId, focusTaskId,
  \* TaskSearchBar: local state and the lodash debounce closure
  mounted, searchMode, inputValue, showResults, debounced,
  \* TaskFlow: refs, and what the last render recomputed
  reactFlowInstance, hasInitialized, rafPending, dirty, lastRender,
  \* rendering surface, DOM and timers
  viewport, timers, highlighted, elements, lastOp,
  \* observations of past calls, used to state the timing properties
  enterCommit, lateWrite, teardown, burst, focusRequest, focusPans, lastPan,
  lastHighlight, cleared,
  \* the search mode has been switched and the user has not typed, pressed
  \* Enter or clicked a result since
  modeSwitch,
  \* TaskFlowDemoContent: the task selected on the page, and the last click
  \* on a row of the task list
  selectedTask, listClick,
  \* the last application of a pure function: its name, arguments and result
  lastCall

selectionVars ==
  <<merchantFilter, searchTerm, rewardSearchTerm, selectedTaskId, focusTaskId>>
barVars == <<mounted, searchMode, inputValue, showResults, debounced>>
flowVars == <<reactFlowInstance, hasInitialized, rafPending, dirty, lastRender>>
surfaceVars == <<viewport, timers, highlighted, elements, lastOp>>
obsBarVars == <<enterCommit, lateWrite, teardown, burst, modeSwitch>>
obsFocusVars == <<focusRequest, focusPans, cleared>>
obsViewVars == <<lastPan, lastHighlight>>
listVars == <<selectedTask, listClick>>
vars ==
  <<selectionVars, barVars, flowVars, surfaceVars, obsBarVars, obsFocusVars,
    obsViewVars, listVars, lastCall>>

\* ------------------------------------------------------------------- inputs
\* strings a user types into the search bar
Inputs == { <<>>, <<"a">> }
\* MerchantFilter: the trader names of the task collection
MerchantNames == {taskDataArray[i].trader : i \in 1..Len(taskDataArray)}
SearchModes == {"name", "reward"}

\* ------------------------------------------------------------ lodash debounce
NoTimer == 0 - 1
NoArgs == [present |-> FALSE, value |-> <<>>, mode |-> "name"]
Args(value, mode) == [present |-> TRUE, value |-> value, mode |-> mode]

\* a debounced function with nothing pending (also the state after cancel())
DebounceIdle == [timerId |-> NoTimer, lastArgs |-> NoArgs, sinceLastCall |-> 0]

\* debounced(value, mode): remember the arguments and the call time; start
\* the timer when none is running
debounceCall(d, value, mode) ==
  [timerId |-> IF d.timerId = NoTimer THEN debounceMs ELSE d.timerId,
   lastArgs |-> Args(value, mode),
   sinceLastCall |-> 0]

\* a cancel() that leaves the timer and the arguments in place
debounceCancelIgnored(d) == d

\* debounced.cancel()
debounceCancel(d) == DebounceIdle

\* a timer that invokes on its first expiry (leading timer, no restart)
debounceAlwaysInvoke(d) == TRUE

\* timerExpired: shouldInvoke when the wait has passed since the last call
debounceShouldInvoke(d) == d.sinceLastCall >= debounceMs

\* timerExpired when not invoking: restart the timer for the remaining wait
debounceRestart(d) ==
  [d EXCEPT !.timerId = debounceMs - d.sinceLastCall]

\* --------------------------------------------------------- shared helpers
Min(a, b) == IF a <= b THEN a ELSE b

\* no callback is waiting with its delay elapsed
NoDueTimer ==
  /\ debounced.timerId # 0
  /\ \A i \in 1..Len(timers) : timers[i].rem > 0

\* the calls made by a render that made none
NoCalls == <<>>

\* the page is mounted, the last commit has been rendered and no callback is
\* due: the event loop is ready to dispatch a user event
Idle == mounted /\ dirty = {} /\ NoDueTimer

\* TaskFlow is re-rendered when the context value it reads has changed
MarkDirty ==
  dirty' = dirty
    \cup (IF <<merchantFilter', searchTerm', rewardSearchTerm'>>
             # <<merchantFilter, searchTerm, rewardSearchTerm>>
          THEN {"filters"} ELSE {})
    \cup (IF focusTaskId' # focusTaskId THEN {"focus"} ELSE {})

\* TaskSearchBar effects (lines 127-137): when the mode or one of the two
\* terms has changed, the input shows the current mode's term
SyncInput(candidate) ==
  inputValue' =
    IF <<searchMode', searchTerm', rewardSearchTerm'>>
       # <<searchMode, searchTerm, rewardSearchTerm>>
    THEN (IF searchMode' = "name" THEN searchTerm' ELSE rewardSearchTerm')
    ELSE candidate

\* TaskSearchBar rewardSearchResults / searchResultTasks: at most ten matches
searchResultTasks(mode, input, tasks) ==
  IF mode # "reward" \/ trim(input) = <<>> \/ Len(tasks) = 0
  THEN <<>>
  ELSE LET matches == findTasksByReward(tasks, input).matches
       IN SubSeq(matches, 1, Min(10, Len(matches)))

NoBurst ==
  [open |-> FALSE, value |-> <<>>, mode |-> "name", since |-> 0, keys |-> 0,
   writes |-> 0, written |-> NoArgs, sync |-> FALSE]
NoCommit ==
  [valid |-> FALSE, value |-> <<>>, mode |-> "name", cancelled |-> NoArgs]

\* ---------------------------------------------------------- TaskSearchBar
\* handleChange: the input shows the typed value and the debounced write is
\* (re)scheduled
HandleChange(value) ==
  /\ Idle
  /\ value # inputValue
  /\ debounced' = debounceCall(debounced, value, searchMode)
  /\ showResults' = (searchMode = "reward" /\ trim(value) # <<>>)
  /\ UNCHANGED <<selectionVars, mounted, searchMode>>
  /\ SyncInput(value)
  /\ MarkDirty
  /\ burst' = [open |-> TRUE, value |-> value, mode |-> searchMode, since |-> 0,
               keys |-> IF burst.open /\ burst.since < debounceMs
                        THEN Min(burst.keys + 1, 2) ELSE 1,
               writes |-> IF burst.open /\ burst.since < debounceMs
                          THEN burst.writes ELSE 0,
               written |-> IF burst.open /\ burst.since < debounceMs
                           THEN burst.written ELSE NoArgs,
               sync |-> <<searchTerm', rewardSearchTerm'>>
                        # <<searchTerm, rewardSearchTerm>>]
  /\ enterCommit' = NoCommit
  /\ modeSwitch' = FALSE
  /\ UNCHANGED <<reactFlowInstance, hasInitialized, rafPending, lastRender,
                 surfaceVars, lateWrite, teardown, obsFocusVars, obsViewVars, listVars, lastCall>>

\* the function wrapped by debounce (lines 94-101)
DebouncedWrite(value, mode) ==
  IF mode = "name"
  THEN searchTerm' = value /\ rewardSearchTerm' = <<>>
  ELSE rewardSearchTerm' = value /\ searchTerm' = <<>>

\* lodash timerExpired of debouncedSetSearchTerm
DebounceTimerExpired ==
  /\ debounced.timerId = 0
  /\ IF debounceShouldInvoke(debounced)
     THEN /\ debounced' = DebounceIdle
          /\ IF debounced.lastArgs.present
             THEN /\ DebouncedWrite(debounced.lastArgs.value, debounced.lastArgs.mode)
                  /\ burst' = [burst EXCEPT !.writes = Min(burst.writes + 1, 2),
                                            !.written = debounced.lastArgs]
                  /\ lateWrite' = (lateWrite \/ ~mounted)
             ELSE UNCHANGED <<searchTerm, rewardSearchTerm, burst, lateWrite>>
     ELSE /\ debounced' = debounceRestart(debounced)
          /\ UNCHANGED <<searchTerm, rewardSearchTerm, burst, lateWrite>>
  /\ UNCHANGED <<merchantFilter, selectedTaskId, focusTaskId, mounted, searchMode,
                 showResults>>
  /\ SyncInput(inputValue)
  /\ MarkDirty
  /\ UNCHANGED <<reactFlowInstance, hasInitialized, rafPending, lastRender,
                 surfaceVars, enterCommit, teardown, modeSwitch, obsFocusVars, obsViewVars, listVars, lastCall>>

\* handleClear (clear button, Escape)
HandleClear ==
  /\ Idle
  /\ debounced' = debounceCancel(debounced)
  /\ searchTerm' = <<>>
  /\ rewardSearchTerm' = <<>>
  /\ showResults' = FALSE
  /\ UNCHANGED <<merchantFilter, selectedTaskId, focusTaskId, mounted, searchMode>>
  /\ SyncInput(<<>>)
  /\ MarkDirty
  /\ burst' = NoBurst
  /\ enterCommit' = NoCommit
  /\ UNCHANGED <<reactFlowInstance, hasInitialized, rafPending, lastRender,
                 surfaceVars, lateWrite, modeSwitch, teardown, obsFocusVars, obsViewVars, listVars, lastCall>>

\* handleKeyDown, key Enter
HandleKeyDownEnter ==
  LET results == searchResultTasks(searchMode, inputValue, taskDataArray)
      jump == searchMode = "reward" /\ Len(results) > 0
  IN /\ Idle
     /\ debounced' = debounceCancel(debounced)
     /\ IF searchMode = "name"
        THEN searchTerm' = inputValue /\ UNCHANGED rewardSearchTerm
        ELSE rewardSearchTerm' = inputValue /\ UNCHANGED searchTerm
     /\ IF jump
        THEN focusTaskId' = results[1].taskId /\ showResults' = FALSE
        ELSE UNCHANGED <<focusTaskId, showResults>>
     /\ UNCHANGED <<merchantFilter, selectedTaskId, mounted, searchMode>>
     /\ SyncInput(inputValue)
     /\ MarkDirty
     /\ burst' = NoBurst
     /\ enterCommit' = [valid |-> TRUE, value |-> inputValue, mode |-> searchMode,
                        cancelled |-> IF debounced.timerId # NoTimer
                                      THEN debounced.lastArgs ELSE NoArgs]
     /\ focusRequest' = IF jump THEN results[1].taskId ELSE focusRequest
     /\ focusPans' = IF jump /\ focusTaskId' # focusTaskId THEN <<>> ELSE focusPans
     /\ UNCHANGED cleared
     /\ modeSwitch' = FALSE
     /\ UNCHANGED <<reactFlowInstance, hasInitialized, rafPending, lastRender,
                    surfaceVars, lateWrite, teardown, obsViewVars, listVars, lastCall>>

\* handleModeChange: the exclusive toggle reports the other mode, or null
\* when the selected button is pressed again
HandleModeChange(newMode) ==
  /\ Idle
  /\ newMode # searchMode
  /\ IF newMode # None
     THEN /\ searchMode' = newMode
          /\ searchTerm' = <<>>
          /\ rewardSearchTerm' = <<>>
          /\ showResults' = FALSE
          /\ SyncInput(<<>>)
          /\ enterCommit' = NoCommit
     ELSE UNCHANGED <<searchMode, searchTerm, rewardSearchTerm, showResults,
                      inputValue, enterCommit>>
  /\ UNCHANGED <<merchantFilter, selectedTaskId, focusTaskId, mounted, debounced>>
  /\ MarkDirty
  /\ modeSwitch' = IF newMode # None THEN TRUE ELSE modeSwitch
  /\ UNCHANGED <<reactFlowInstance, hasInitialized, rafPending, lastRender,
                 surfaceVars, lateWrite, teardown, burst, obsFocusVars, obsViewVars, listVars, lastCall>>

\* handleResultClick: a row of the reward result list
HandleResultClick(taskId) ==
  LET results == searchResultTasks(searchMode, inputValue, taskDataArray)
  IN /\ Idle
     /\ showResults
     /\ \E i \in 1..Len(results) : results[i].taskId = taskId
     /\ focusTaskId' = taskId
     /\ showResults' = FALSE
     /\ UNCHANGED <<merchantFilter, searchTerm, rewardSearchTerm, selectedTaskId,
                    mounted, searchMode, inputValue, debounced>>
     /\ MarkDirty
     /\ focusRequest' = taskId
     /\ focusPans' = IF focusTaskId' # focusTaskId THEN <<>> ELSE focusPans
     /\ UNCHANGED cleared
     /\ modeSwitch' = FALSE
     /\ UNCHANGED <<reactFlowInstance, hasInitialized, rafPending, lastRender,
                    surfaceVars, enterCommit, lateWrite, teardown, burst,
                    obsViewVars, listVars, lastCall>>

\* handleClickAway
HandleClickAway ==
  /\ Idle
  /\ showResults
  /\ showResults' = FALSE
  /\ UNCHANGED <<selectionVars, mounted, searchMode, inputValue, debounced,
                 flowVars, surfaceVars, obsBarVars, obsFocusVars, obsViewVars, listVars, lastCall>>

\* onFocus of the text field
HandleFocus ==
  /\ Idle
  /\ ~showResults
  /\ searchMode = "reward"
  /\ trim(inputValue) # <<>>
  /\ Len(searchResultTasks(searchMode, inputValue, taskDataArray)) > 0
  /\ showResults' = TRUE
  /\ UNCHANGED <<selectionVars, mounted, searchMode, inputValue, debounced,
                 flowVars, surfaceVars, obsBarVars, obsFocusVars, obsViewVars, listVars, lastCall>>

\* ---------------------------------------------------------- MerchantFilter
\* MerchantFilter handleChange: '' selects all traders
MerchantHandleChange(value) ==
  LET next == IF value = <<>> THEN NullFilter ELSE Merchant(value)
  IN /\ Idle
     /\ next # merchantFilter
     /\ merchantFilter' = next
     /\ UNCHANGED <<searchTerm, rewardSearchTerm, selectedTaskId, focusTaskId,
                    mounted, searchMode, showResults, debounced>>
     /\ SyncInput(inputValue)
     /\ MarkDirty
     /\ UNCHANGED <<reactFlowInstance, hasInitialized, rafPending, lastRender,
                    surfaceVars, obsBarVars, obsFocusVars, obsViewVars, listVars, lastCall>>

\* ---------------------------------------------------------------- TaskFlow
\* TaskFlowDemoContent: rawNodes / rawEdges, computed once per mount
rawNodes == generateNodes(taskDataArray)
rawEdges == generateEdges(taskDataArray)

\* TaskFlow layout useMemo: the nodes handed to React Flow
layoutedNodes == getLayoutedElements(rawNodes, rawEdges, TaskFlowLayoutOptions)

\* matched node ids that leave the trader filter out
matchedNodeIdsAnyTrader(searchTerm_, rewardSearchTerm_, merchantFilter_) ==
  LET ids == [i \in 1..Len(rawNodes) |-> rawNodes[i].id]
  IN SelectSeqBy(ids,
       [i \in 1..Len(rawNodes) |->
          isTaskMatchedCombined(rawNodes[i].data, searchTerm_, rewardSearchTerm_,
                                NullFilter)])

\* TaskFlow processedNodes: the ids of the matched nodes, in input order
matchedNodeIds(searchTerm_, rewardSearchTerm_, merchantFilter_) ==
  LET ids == [i \in 1..Len(rawNodes) |-> rawNodes[i].id]
  IN SelectSeqBy(ids,
       [i \in 1..Len(rawNodes) |->
          isTaskMatchedCombined(rawNodes[i].data, searchTerm_, rewardSearchTerm_,
                                merchantFilter_)])

\* the options of both panToNodeAndHighlight calls of TaskFlow
TaskFlowPanOptions ==
  [zoom |-> 15, duration |-> 300, nodeWidth |-> NODE_WIDTH, nodeHeight |-> NODE_HEIGHT]

NoViewport == [kind |-> "default", x |-> 0, y |-> 0, zoom |-> 8, duration |-> 0]
SetCenter(call) ==
  [kind |-> "setCenter", x |-> call.x, y |-> call.y, zoom |-> call.zoom,
   duration |-> call.duration]
FitView(duration) ==
  [kind |-> "fitView", x |-> 0, y |-> 0, zoom |-> 0, duration |-> duration]

\* the viewport after the setCenter calls of one operation
afterCalls(vp, calls) ==
  IF calls = <<>> THEN vp ELSE SetCenter(calls[Len(calls)])

NoPanCall == [result |-> FALSE, threw |-> FALSE, setCenter |-> <<>>, timeouts |-> <<>>]

\* the handle held in the ref reactFlowInstance
currentInstance == IF reactFlowInstance THEN Instance(layoutedNodes) ELSE NullInstance

\* onInit: React Flow hands over its instance; the initial focus is deferred
\* by one animation frame
OnInit ==
  /\ mounted
  /\ dirty = {}
  /\ ~reactFlowInstance
  /\ reactFlowInstance' = TRUE
  /\ rafPending' = TRUE
  /\ UNCHANGED <<selectionVars, barVars, hasInitialized, dirty, lastRender,
                 surfaceVars, obsBarVars, obsFocusVars, obsViewVars, listVars, lastCall>>

\* the requestAnimationFrame callback of onInit
RafCallback ==
  LET effectiveStartNodeId == findStartNodeId(rawNodes, rawEdges)
      instance == Instance(layoutedNodes)
  IN /\ rafPending
     /\ dirty = {}
     /\ rafPending' = FALSE
     /\ IF hasInitialized
        THEN UNCHANGED <<hasInitialized, viewport>>
        ELSE /\ hasInitialized' = TRUE
             /\ viewport' =
                  IF effectiveStartNodeId # None /\ hasNode(instance, effectiveStartNodeId)
                  THEN LET node == getNode(instance, effectiveStartNodeId)
                       IN SetCenter([x |-> node.position.x + 160,
                                     y |-> node.position.y + 50,
                                     zoom |-> 12, duration |-> 500])
                  ELSE FitView(500)
     /\ UNCHANGED <<selectionVars, barVars, reactFlowInstance, dirty, lastRender,
                    timers, highlighted, elements, lastOp,
                    obsBarVars, obsFocusVars, obsViewVars, listVars, lastCall>>

\* one commit of TaskFlow after a change of the context value: the useMemo
\* chain (processedNodes -> processedEdges -> layout), then the search effect
\* (lines 164-175) and the focus effect (lines 178-189)
Render ==
  LET filtersChanged == "filters" \in dirty
      focusChanged == "focus" \in dirty
      \* useMemo: a memo is recomputed when one of its dependencies is new;
      \* rawNodes and rawEdges keep their identity for the life of the page
      buildRecomputed == FALSE
      processedNodesRecomputed == buildRecomputed \/ filtersChanged
      processedEdgesRecomputed == buildRecomputed \/ processedNodesRecomputed
      layoutRecomputed == processedNodesRecomputed \/ processedEdgesRecomputed
      matched == matchedNodeIds(searchTerm, rewardSearchTerm, merchantFilter)
      searchRuns ==
        /\ filtersChanged
        /\ reactFlowInstance
        /\ (searchTerm # <<>> \/ rewardSearchTerm # <<>>)
        /\ Len(matched) > 0
      searchPan ==
        IF searchRuns
        THEN panToNodeAndHighlight(currentInstance, matched[1], TaskFlowPanOptions,
                                   NoHighlightOptions)
        ELSE NoPanCall
      focusRuns == focusChanged /\ reactFlowInstance /\ focusTaskId # None
      focusPan ==
        IF focusRuns
        THEN panToNodeAndHighlight(currentInstance, focusTaskId, TaskFlowPanOptions,
                                   NoHighlightOptions)
        ELSE NoPanCall
  IN /\ mounted
     /\ dirty # {}
     /\ lastRender' = [cause |-> dirty, build |-> buildRecomputed,
                       match |-> processedNodesRecomputed,
                       layout |-> layoutRecomputed,
                       calls |-> (IF searchRuns
                                  THEN << [by |-> "search", nodeId |-> matched[1],
                                           result |-> searchPan.result,
                                           timeouts |-> searchPan.timeouts] >>
                                  ELSE <<>>)
                                 \o (IF focusRuns
                                     THEN << [by |-> "focus", nodeId |-> focusTaskId,
                                              result |-> focusPan.result,
                                              timeouts |-> focusPan.timeouts] >>
                                     ELSE <<>>)]
     /\ viewport' = afterCalls(afterCalls(viewport, searchPan.setCenter),
                               focusPan.setCenter)
     /\ focusTaskId' = IF focusRuns THEN None ELSE focusTaskId
     /\ focusPans' = IF focusRuns THEN Append(focusPans, focusTaskId) ELSE focusPans
     /\ dirty' = IF focusTaskId' # focusTaskId THEN {"focus"} ELSE {}
     /\ UNCHANGED <<merchantFilter, searchTerm, rewardSearchTerm, selectedTaskId,
                    barVars, reactFlowInstance, hasInitialized, rafPending,
                    timers, highlighted, elements, lastOp, obsBarVars, focusRequest,
                    cleared, obsViewVars, listVars, lastCall>>

\* handleNodeDoubleClick: the viewport is centred on the node React Flow
\* reports, a node of the laid-out graph
HandleNodeDoubleClick(nodeId) ==
  /\ Idle
  /\ reactFlowInstance
  /\ hasNode(currentInstance, nodeId)
  /\ LET node == getNode(currentInstance, nodeId)
     IN viewport' = SetCenter([x |-> node.position.x + NODE_WIDTH \div 2,
                               y |-> node.position.y + NODE_HEIGHT \div 2,
                               zoom |-> 18, duration |-> 300])
  /\ UNCHANGED <<selectionVars, barVars, flowVars, timers, highlighted, elements, lastOp,
                 obsBarVars, obsFocusVars, obsViewVars, listVars, lastCall>>

\* the page is left without TaskSearchBar's cleanup effect
UnmountWithoutCleanup ==
  /\ mounted
  /\ dirty = {}
  /\ mounted' = FALSE
  /\ debounced' = debounced
  /\ burst' = NoBurst
  /\ enterCommit' = NoCommit
  /\ teardown' = IF debounced.timerId # NoTimer THEN "pending" ELSE "idle"
  /\ UNCHANGED <<selectionVars, searchMode, inputValue, showResults,
                 reactFlowInstance, hasInitialized, rafPending, dirty, lastRender,
                 surfaceVars, lateWrite, modeSwitch, obsFocusVars, obsViewVars, listVars, lastCall>>

\* the page is left: TaskSearchBar's cleanup cancels the debounced write
Unmount ==
  /\ mounted
  /\ dirty = {}
  /\ mounted' = FALSE
  /\ debounced' = debounceCancel(debounced)
  /\ burst' = NoBurst
  /\ enterCommit' = NoCommit
  /\ teardown' = IF debounced.timerId # NoTimer THEN "pending" ELSE "idle"
  /\ UNCHANGED <<selectionVars, searchMode, inputValue, showResults,
                 reactFlowInstance, hasInitialized, rafPending, dirty, lastRender,
                 surfaceVars, lateWrite, modeSwitch, obsFocusVars, obsViewVars, listVars, lastCall>>

\* TimeStep milliseconds pass on the page; no callback is due and no render
\* or animation frame is outstanding
countDown(rem) == IF rem > TimeStep THEN rem - TimeStep ELSE 0

Tick ==
  /\ NoDueTimer
  /\ dirty = {}
  /\ ~rafPending
  /\ debounced.timerId # NoTimer
  /\ debounced' =
       [debounced EXCEPT
          !.timerId = countDown(debounced.timerId),
          !.sinceLastCall = Min(debounced.sinceLastCall + TimeStep, debounceMs)]
  /\ burst' = IF burst.open
              THEN [burst EXCEPT !.since = Min(burst.since + TimeStep, debounceMs)]
              ELSE burst
  /\ UNCHANGED <<selectionVars, mounted, searchMode, inputValue, showResults,
                 flowVars, surfaceVars, enterCommit, lateWrite, modeSwitch, teardown, obsFocusVars,
                 obsViewVars, listVars, lastCall>>

\* ----------------------------------------------------------- specification
NoOp ==
  [op |-> "none", instancePresent |-> FALSE, nodeKnown |-> FALSE, result |-> FALSE,
   threw |-> FALSE, setCenterCalls |-> 0]
NoPan ==
  [active |-> FALSE, nodeId |-> None, result |-> FALSE, panResult |-> FALSE,
   scheduled |-> 0, panDuration |-> 0, elapsed |-> 0, ran |-> FALSE,
   rendered |-> FALSE, applied |-> FALSE, clean |-> FALSE]
NoListClick == [valid |-> FALSE, taskId |-> None]
NoCall == [fn |-> "none"]
NoClear ==
  [valid |-> FALSE, hadFilters |-> FALSE, selectedTaskId |-> None,
   focusTaskId |-> None]
NoHighlight ==
  [active |-> FALSE, nodeId |-> None, found |-> FALSE, duration |-> 0,
   elapsed |-> 0, fresh |-> FALSE]

\* the page has just been mounted: TaskViewProvider's initial state, the
\* search bar in name mode, TaskFlow rendered once, onInit not yet called
InitPage ==
  /\ merchantFilter = NullFilter
  /\ searchTerm = <<>>
  /\ rewardSearchTerm = <<>>
  /\ selectedTaskId = None
  /\ focusTaskId = None
  /\ mounted = TRUE
  /\ searchMode = "name"
  /\ inputValue = <<>>
  /\ showResults = FALSE
  /\ debounced = DebounceIdle
  /\ reactFlowInstance = FALSE
  /\ hasInitialized = FALSE
  /\ rafPending = FALSE
  /\ dirty = {}
  /\ lastRender = [cause |-> {"mount"}, build |-> TRUE, match |-> TRUE,
                   layout |-> TRUE, calls |-> NoCalls]
  /\ viewport = NoViewport
  /\ timers = <<>>
  /\ highlighted = {}
  /\ lastOp = NoOp
  /\ enterCommit = NoCommit
  /\ lateWrite = FALSE
  /\ teardown = "none"
  /\ burst = NoBurst
  /\ modeSwitch = FALSE
  /\ focusRequest = None
  /\ focusPans = <<>>
  /\ lastPan = NoPan
  /\ lastHighlight = NoHighlight
  /\ cleared = NoClear
  /\ selectedTask = None
  /\ listClick = NoListClick

Init == InitPage /\ elements = TaskIds /\ lastCall = NoCall

Next ==
  \/ \E value \in Inputs : HandleChange(value)
  \/ DebounceTimerExpired
  \/ HandleClear
  \/ HandleKeyDownEnter
  \/ \E newMode \in SearchModes \cup {None} : HandleModeChange(newMode)
  \/ \E taskId \in TaskIds : HandleResultClick(taskId)
  \/ HandleClickAway
  \/ HandleFocus
  \/ \E value \in MerchantNames \cup {<<>>} : MerchantHandleChange(value)
  \/ OnInit
  \/ RafCallback
  \/ Render
  \/ Unmount
  \/ Tick

Spec == Init /\ [][Next]_vars

\* ------------------------------------------------- TaskViewProvider alone
storeFrame ==
  UNCHANGED <<barVars, flowVars, surfaceVars, obsBarVars, focusRequest, focusPans,
              obsViewVars, listVars, lastCall>>

SetMerchantFilter(merchant) ==
  /\ merchantFilter' = merchant
  /\ cleared' = NoClear
  /\ UNCHANGED <<searchTerm, rewardSearchTerm, selectedTaskId, focusTaskId>>
  /\ storeFrame

SetSearchTerm(term) ==
  /\ searchTerm' = term
  /\ cleared' = NoClear
  /\ UNCHANGED <<merchantFilter, rewardSearchTerm, selectedTaskId, focusTaskId>>
  /\ storeFrame

SetRewardSearchTerm(term) ==
  /\ rewardSearchTerm' = term
  /\ cleared' = NoClear
  /\ UNCHANGED <<merchantFilter, searchTerm, selectedTaskId, focusTaskId>>
  /\ storeFrame

SetSelectedTaskId(taskId) ==
  /\ selectedTaskId' = taskId
  /\ cleared' = NoClear
  /\ UNCHANGED <<merchantFilter, searchTerm, rewardSearchTerm, focusTaskId>>
  /\ storeFrame

SetFocusTaskId(taskId) ==
  /\ focusTaskId' = taskId
  /\ cleared' = NoClear
  /\ UNCHANGED <<merchantFilter, searchTerm, rewardSearchTerm, selectedTaskId>>
  /\ storeFrame

\* a clearFilters that also deselects
ClearFiltersAndSelection ==
  /\ merchantFilter' = NullFilter
  /\ searchTerm' = <<>>
  /\ rewardSearchTerm' = <<>>
  /\ selectedTaskId' = None
  /\ UNCHANGED focusTaskId
  /\ cleared' = [valid |-> TRUE,
                 hadFilters |-> (~merchantFilter.isNull /\ searchTerm # <<>>
                                 /\ rewardSearchTerm # <<>>),
                 selectedTaskId |-> selectedTaskId,
                 focusTaskId |-> focusTaskId]
  /\ storeFrame

\* TaskViewProvider clearFilters
ClearFilters ==
  /\ merchantFilter' = NullFilter
  /\ searchTerm' = <<>>
  /\ rewardSearchTerm' = <<>>
  /\ UNCHANGED <<selectedTaskId, focusTaskId>>
  /\ cleared' = [valid |-> TRUE,
                 hadFilters |-> (~merchantFilter.isNull /\ searchTerm # <<>>
                                 /\ rewardSearchTerm # <<>>),
                 selectedTaskId |-> selectedTaskId,
                 focusTaskId |-> focusTaskId]
  /\ storeFrame

NextStore ==
  \/ \E value \in MerchantNames : SetMerchantFilter(Merchant(value))
  \/ SetMerchantFilter(NullFilter)
  \/ \E term \in Inputs : SetSearchTerm(term)
  \/ \E term \in Inputs : SetRewardSearchTerm(term)
  \/ \E taskId \in TaskIds \cup {None} : SetSelectedTaskId(taskId)
  \/ \E taskId \in TaskIds \cup {None} : SetFocusTaskId(taskId)
  \/ ClearFilters

SpecStore == Init /\ [][NextStore]_vars

\* ------------------------------------------- the task list beside the canvas
\* MerchantFilter.tsx (TaskListVirtual) isTaskMatched
isTaskMatched(task, merchantFilter_, searchTerm_) ==
  IF ~merchantFilter_.isNull /\ merchantFilter_.name # <<>>
     /\ task.trader # merchantFilter_.name
  THEN FALSE
  ELSE IF searchTerm_ # <<>>
          /\ ~includes(toLowerCase(task.taskName), toLowerCase(searchTerm_))
          /\ ~includes(toLowerCase(task.trader), toLowerCase(searchTerm_))
  THEN FALSE
  ELSE TRUE

\* TaskListVirtual matchedTaskIds: it reads merchantFilter and searchTerm
\* from the context
matchedTaskIds(tasks, merchantFilter_, searchTerm_) ==
  {tasks[i].taskId : i \in {j \in 1..Len(tasks) :
                              isTaskMatched(tasks[j], merchantFilter_, searchTerm_)}}

\* the ids of the nodes TaskFlow marks as matched (processedNodes)
canvasMatchedIds(merchantFilter_, searchTerm_, rewardSearchTerm_) ==
  {rawNodes[i].id : i \in {j \in 1..Len(rawNodes) :
                             isTaskMatchedCombined(rawNodes[j].data, searchTerm_,
                                                   rewardSearchTerm_, merchantFilter_)}}

\* search terms as the search bar writes them: the raw input, also padded
ListInputs == Inputs \cup { <<" ", "a">> }

listFrame ==
  UNCHANGED <<barVars, flowVars, surfaceVars, obsBarVars, obsFocusVars, obsViewVars,
              lastCall>>

\* TaskRow handleClick -> onTaskClick(task.taskId) -> handleTaskListClick
TaskRowClick(index) ==
  LET task == taskDataArray[index]
  IN /\ selectedTask' = task.taskId
     /\ listClick' = [valid |-> TRUE, taskId |-> task.taskId]
     /\ UNCHANGED selectionVars
     /\ listFrame

\* TaskFlowDemoContent handleNodeClick
HandleNodeClick(nodeId) ==
  /\ selectedTask' = nodeId
  /\ listClick' = NoListClick
  /\ UNCHANGED selectionVars
  /\ listFrame

NextList ==
  \/ \E index \in 1..Len(taskDataArray) : TaskRowClick(index)
  \/ \E nodeId \in TaskIds : HandleNodeClick(nodeId)
  \/ \E nodeId \in TaskIds : HandleNodeDoubleClick(nodeId)
  \/ OnInit
  \/ RafCallback
  \/ \E value \in MerchantNames : SetMerchantFilter(Merchant(value))
  \/ SetMerchantFilter(NullFilter)
  \/ \E term \in ListInputs : SetSearchTerm(term)
  \/ \E term \in Inputs : SetRewardSearchTerm(term)

SpecList == Init /\ [][NextList]_vars

\* ------------------------------------------------------- viewport.ts alone
\* node ids handed to the helpers: laid-out tasks and an id that is no node
ViewNodeIds == {"A", "B", "Z"}
\* the nodes whose element is in the document
ViewElementIds == {"A"}
\* option objects handed to the helpers: none, and those of search.test.ts
PanOptionInputs ==
  { NoOptions,
    [zoom |-> 20, duration |-> 500, nodeWidth |-> 400, nodeHeight |-> 200] }
HighlightOptionInputs == { NoHighlightOptions, [duration |-> 1000] }

viewFrame ==
  UNCHANGED <<selectionVars, barVars, flowVars, obsBarVars, obsFocusVars, listVars,
              lastCall>>

\* the pending callbacks whose delay has elapsed
dueTimers == {i \in 1..Len(timers) : timers[i].rem <= 0}
NoDueViewTimer == dueTimers = {}

\* the callback the event loop runs next: the one due first, then the one
\* registered first
nextDue ==
  CHOOSE i \in dueTimers :
    \A j \in dueTimers :
      \/ timers[i].rem < timers[j].rem
      \/ (timers[i].rem = timers[j].rem /\ i <= j)

RemoveAt(s, i) == SubSeq(s, 1, i - 1) \o SubSeq(s, i + 1, Len(s))

\* the position in timers of the highlight callback scheduled by the latest
\* panToNodeAndHighlight call, 0 when it has run or was never scheduled
trackedHighlightTimer ==
  IF lastPan.active /\ lastPan.result /\ ~lastPan.ran
  THEN MaxOf({i \in 1..Len(timers) : timers[i].kind = "highlight"})
  ELSE 0

\* an observation is kept until the step after the call it describes is over
settlePan(pan) ==
  IF pan.active /\ (~pan.result \/ pan.ran) THEN NoPan ELSE pan

settleHighlight(h) ==
  IF h.active /\ (~h.found \/ (h.elapsed >= h.duration /\ NoDueViewTimer))
  THEN NoHighlight
  ELSE [h EXCEPT !.fresh = FALSE]

\* the observation of one run of highlightNode
HighlightCall(nodeId, options, r) ==
  [active |-> TRUE, nodeId |-> nodeId, found |-> r.found,
   duration |-> mergeOptions(DEFAULT_HIGHLIGHT_OPTIONS, options).duration,
   elapsed |-> 0, fresh |-> TRUE]

\* another run of highlightNode marked the node the latest
\* panToNodeAndHighlight call is about
disturbed(pan, nodeId, r) ==
  IF pan.active /\ pan.result /\ ~pan.ran /\ pan.nodeId = nodeId /\ r.found
  THEN [pan EXCEPT !.clean = FALSE]
  ELSE settlePan(pan)

\* a caller invokes panToNode
CallPanToNode(present, nodeId, options) ==
  LET instance == IF present THEN Instance(layoutedNodes) ELSE NullInstance
      r == panToNode(instance, nodeId, options)
  IN /\ NoDueViewTimer
     /\ viewport' = afterCalls(viewport, r.setCenter)
     /\ lastOp' = [op |-> "panToNode", instancePresent |-> present,
                   nodeKnown |-> nodeId \in TaskIds, result |-> r.result,
                   threw |-> r.threw, setCenterCalls |-> Len(r.setCenter)]
     /\ lastHighlight' = settleHighlight(lastHighlight)
     /\ lastPan' = settlePan(lastPan)
     /\ UNCHANGED <<timers, highlighted, elements>>
     /\ viewFrame

\* a highlightNode that cancels the pending removals of the node and keeps
\* only its own (a debounced removal)
CallHighlightNodeDebounced(nodeId, options) ==
  LET r == highlightNode(elements, nodeId, options)
      others == SelectSeqBy(timers,
                  [i \in 1..Len(timers) |->
                     ~(r.found /\ timers[i].kind = "remove" /\ timers[i].nodeId = nodeId)])
  IN /\ NoDueViewTimer
     /\ Len(timers) + Len(r.timeouts) <= MaxTimers
     /\ highlighted' = highlighted \cup r.add
     /\ timers' = others \o r.timeouts
     /\ lastHighlight' = HighlightCall(nodeId, options, r)
     /\ lastPan' = disturbed(lastPan, nodeId, r)
     /\ lastOp' = [NoOp EXCEPT !.op = "highlightNode"]
     /\ UNCHANGED <<viewport, elements>>
     /\ viewFrame

\* a caller invokes highlightNode
CallHighlightNode(nodeId, options) ==
  LET r == highlightNode(elements, nodeId, options)
  IN /\ NoDueViewTimer
     /\ Len(timers) + Len(r.timeouts) <= MaxTimers
     /\ highlighted' = highlighted \cup r.add
     /\ timers' = timers \o r.timeouts
     /\ lastHighlight' = HighlightCall(nodeId, options, r)
     /\ lastPan' = disturbed(lastPan, nodeId, r)
     /\ lastOp' = [NoOp EXCEPT !.op = "highlightNode"]
     /\ UNCHANGED <<viewport, elements>>
     /\ viewFrame

\* a caller invokes panToNodeAndHighlight
CallPanToNodeAndHighlight(present, nodeId, panOptions, highlightOptions) ==
  LET instance == IF present THEN Instance(layoutedNodes) ELSE NullInstance
      r == panToNodeAndHighlight(instance, nodeId, panOptions, highlightOptions)
  IN /\ NoDueViewTimer
     /\ Len(timers) + Len(r.timeouts) <= MaxTimers
     /\ viewport' = afterCalls(viewport, r.setCenter)
     /\ timers' = timers \o r.timeouts
     /\ lastPan' = [active |-> TRUE, nodeId |-> nodeId, result |-> r.result,
                    panResult |-> panToNode(instance, nodeId, panOptions).result,
                    scheduled |-> Len(timers') - Len(timers),
                    panDuration |-> mergeOptions(DEFAULT_OPTIONS, panOptions).duration,
                    elapsed |-> 0, ran |-> FALSE, rendered |-> FALSE,
                    applied |-> FALSE, clean |-> nodeId \notin highlighted]
     /\ lastOp' = [op |-> "panToNodeAndHighlight", instancePresent |-> present,
                   nodeKnown |-> nodeId \in TaskIds, result |-> r.result,
                   threw |-> r.threw, setCenterCalls |-> Len(r.setCenter)]
     /\ lastHighlight' = settleHighlight(lastHighlight)
     /\ UNCHANGED <<highlighted, elements>>
     /\ viewFrame

\* the event loop runs the callback that is due: the deferred highlightNode
\* of panToNodeAndHighlight, or the removal scheduled by highlightNode
TimeoutFires ==
  /\ ~NoDueViewTimer
  /\ LET i == nextDue
         t == timers[i]
         rest == RemoveAt(timers, i)
     IN IF t.kind = "highlight"
        THEN LET r == highlightNode(elements, t.nodeId, t.options)
             IN /\ highlighted' = highlighted \cup r.add
                /\ timers' = rest \o r.timeouts
                /\ lastHighlight' = HighlightCall(t.nodeId, t.options, r)
                /\ lastPan' =
                     IF i = trackedHighlightTimer
                     THEN [lastPan EXCEPT !.ran = TRUE,
                                          !.rendered = t.nodeId \in elements,
                                          !.applied = t.nodeId \in highlighted']
                     ELSE disturbed(lastPan, t.nodeId, r)
        ELSE /\ highlighted' = highlighted \ {t.nodeId}
             /\ timers' = rest
             /\ lastHighlight' = settleHighlight(lastHighlight)
             /\ lastPan' = settlePan(lastPan)
  /\ lastOp' = NoOp
  /\ UNCHANGED <<viewport, elements>>
  /\ viewFrame

\* ViewTimeStep milliseconds pass while callbacks are pending and none is due
ViewTick ==
  /\ NoDueViewTimer
  /\ timers # <<>>
  /\ timers' = [i \in 1..Len(timers) |->
                  [timers[i] EXCEPT !.rem = timers[i].rem - ViewTimeStep]]
  /\ lastPan' = [settlePan(lastPan) EXCEPT
                   !.elapsed = Min(@ + ViewTimeStep, settlePan(lastPan).panDuration)]
  /\ lastHighlight' = [settleHighlight(lastHighlight) EXCEPT
                         !.elapsed = Min(@ + ViewTimeStep,
                                         settleHighlight(lastHighlight).duration)]
  /\ lastOp' = NoOp
  /\ UNCHANGED <<viewport, highlighted, elements>>
  /\ viewFrame

NextViewport ==
  \/ \E present \in BOOLEAN, nodeId \in ViewNodeIds, options \in PanOptionInputs :
       CallPanToNode(present, nodeId, options)
  \/ \E nodeId \in ViewNodeIds, options \in HighlightOptionInputs :
       CallHighlightNode(nodeId, options)
  \/ \E present \in BOOLEAN, nodeId \in ViewNodeIds, panOptions \in PanOptionInputs,
        highlightOptions \in HighlightOptionInputs :
       CallPanToNodeAndHighlight(present, nodeId, panOptions, highlightOptions)
  \/ TimeoutFires
  \/ ViewTick

\* the helpers are exercised on the laid-out graph with the element of one
\* node in the document
InitViewport == InitPage /\ elements = ViewElementIds /\ lastCall = NoCall

SpecViewport == InitViewport /\ [][NextViewport]_vars

\* ------------------------------------- data transformation and graph builder
\* ids of the tasks of an API response, and an id that no task carries
IdPool == <<"A", "B", "C", "D">>
ApiIds == {IdPool[i] : i \in 1..MaxTasks}
OutsideId == "Z"

\* APITask: the fields transformTasksData reads
ApiTask(id, minPlayerLevel, taskRequirements) ==
  [id |-> id, name |-> <<"a">>, trader |-> <<"b">>,
   minPlayerLevel |-> minPlayerLevel, taskRequirements |-> taskRequirements]

\* taskRequirements of an API task: ids of required tasks, in or outside
\* the response, repeated or not
ApiReqLists == UNION {[1..n -> ApiIds \cup {OutsideId}] : n \in 0..MaxReqs}

\* the ids of S in the order of the response
idOrder(S) == SelectSeq(SubSeq(IdPool, 1, MaxTasks), LAMBDA id : id \in S)

\* API responses: tasks with distinct ids
ApiResponses ==
  UNION { { [i \in 1..Len(idOrder(S)) |->
               ApiTask(idOrder(S)[i], level[idOrder(S)[i]], reqs[idOrder(S)[i]])] :
            level \in [S -> {1, 2}], reqs \in [S -> ApiReqLists] } :
          S \in SUBSET ApiIds }

\* fetchTaskData.js transformUnlockRequirements
transformUnlockRequirements(taskRequirements, minPlayerLevel) ==
  (IF minPlayerLevel > 1 THEN << [type |-> "level", taskId |-> None] >> ELSE <<>>)
  \o [i \in 1..Len(taskRequirements) |->
        [type |-> "task", taskId |-> taskRequirements[i]]]

\* buildFollowUpTasksMap: the (prerequisite, follow-up) registrations in the
\* order of the two nested forEach loops
RECURSIVE followUpRegistrations(_)
followUpRegistrations(tasks) ==
  IF tasks = <<>> THEN <<>>
  ELSE LET task == Head(tasks)
       IN [i \in 1..Len(task.taskRequirements) |->
             [prerequisiteId |-> task.taskRequirements[i],
              followUp |-> [taskId |-> task.id, taskName |-> task.name,
                            traderName |-> task.trader]]]
          \o followUpRegistrations(Tail(tasks))

\* fetchTaskData.js buildFollowUpTasksMap
buildFollowUpTasksMap(tasks) ==
  LET regs == followUpRegistrations(tasks)
  IN [prerequisiteId \in {regs[i].prerequisiteId : i \in 1..Len(regs)} |->
        LET mine == SelectSeq(regs, LAMBDA reg : reg.prerequisiteId = prerequisiteId)
        IN [i \in 1..Len(mine) |-> mine[i].followUp]]

\* fetchTaskData.js transformSingleTask
transformSingleTask(task, followUpTasks) ==
  [taskId |-> task.id, trader |-> task.trader, taskName |-> task.name,
   rewards |-> <<>>,
   unlockRequirements |->
     transformUnlockRequirements(task.taskRequirements, task.minPlayerLevel),
   followUpTasks |-> followUpTasks]

\* fetchTaskData.js transformTasksData
transformTasksData(tasks) ==
  LET followUpMap == buildFollowUpTasksMap(tasks)
  IN [i \in 1..Len(tasks) |->
        transformSingleTask(tasks[i],
          IF tasks[i].id \in DOMAIN followUpMap THEN followUpMap[tasks[i].id]
          ELSE <<>>)]

\* there is a path of at most n edges from a to b
RECURSIVE pathWithin(_, _, _, _)
pathWithin(a, b, edges, n) ==
  IF n = 0 THEN FALSE
  ELSE \E i \in 1..Len(edges) :
         /\ edges[i].source = a
         /\ (edges[i].target = b \/ pathWithin(edges[i].target, b, edges, n - 1))

isAcyclic(nodes, edges) ==
  \A i \in 1..Len(nodes) : ~pathWithin(nodes[i].id, nodes[i].id, edges, Len(nodes))

graphFrame ==
  UNCHANGED <<selectionVars, barVars, flowVars, surfaceVars, obsBarVars, obsFocusVars,
              obsViewVars, listVars>>

\* transformTasksData is applied to an API response
ApplyTransformTasksData ==
  /\ lastCall.fn = "response"
  /\ lastCall' = [fn |-> "transformTasksData", tasks |-> lastCall.tasks,
                  out |-> transformTasksData(lastCall.tasks)]
  /\ graphFrame

\* generateNodes and generateEdges are applied to the transformed collection
ApplyGenerateEdges ==
  /\ lastCall.fn = "transformTasksData"
  /\ lastCall' = [fn |-> "generateEdges", tasks |-> lastCall.out,
                  nodes |-> generateNodes(lastCall.out),
                  edges |-> generateEdges(lastCall.out)]
  /\ graphFrame

\* findStartNodeId is applied to the generated graph
ApplyFindStartNodeId ==
  /\ lastCall.fn = "generateEdges"
  /\ lastCall' = [fn |-> "findStartNodeId", nodes |-> lastCall.nodes,
                  edges |-> lastCall.edges,
                  out |-> findStartNodeId(lastCall.nodes, lastCall.edges)]
  /\ graphFrame

\* getLayoutedElements is applied to the generated graph when it is acyclic
\* (the ranks dagre gives to the nodes of a cycle are not modelled)
ApplyGetLayoutedElements ==
  /\ lastCall.fn = "generateEdges"
  /\ isAcyclic(lastCall.nodes, lastCall.edges)
  /\ lastCall' = [fn |-> "getLayoutedElements", nodes |-> lastCall.nodes,
                  edges |-> lastCall.edges,
                  out |-> getLayoutedElements(lastCall.nodes, lastCall.edges,
                                              TaskFlowLayoutOptions)]
  /\ graphFrame

NextGraph ==
  \/ ApplyTransformTasksData
  \/ ApplyGenerateEdges
  \/ ApplyFindStartNodeId
  \/ ApplyGetLayoutedElements

InitGraph ==
  /\ InitPage
  /\ elements = TaskIds
  /\ lastCall \in {[fn |-> "response", tasks |-> tasks] : tasks \in ApiResponses}

SpecGraph == InitGraph /\ [][NextGraph]_vars

\* ------------------------------------------------------- match engine alone
\* rewards as transformRewards produces them: textual or numeric value, with
\* or without description
RewardPool ==
  { [type |-> "item", value |-> StringValue(<<"a">>), description |-> NoDescription],
    [type |-> "item", value |-> StringValue(<<"B", "a">>),
     description |-> Description(<<"a", " ", "b">>)],
    [type |-> "money", value |-> NumberValue(100), description |-> NoDescription],
    [type |-> "skill", value |-> NumberValue(1),
     description |-> Description(<<" ", "A">>)],
    [type |-> "experience", value |-> NumberValue(2),
     description |-> Description(<<"b", " ", "a">>)] }

RewardLists == UNION {[1..n -> RewardPool] : n \in 0..MaxRewards}

SearchTask(taskId, trader, taskName, rewards) ==
  [taskId |-> taskId, trader |-> trader, taskName |-> taskName,
   rewards |-> rewards, unlockRequirements |-> <<>>]

\* the tasks handed to isTaskMatchedCombined
SearchTasks ==
  {SearchTask("A", trader, taskName, rewards) :
     trader \in {<<"A", "b">>, <<"b">>}, taskName \in {<<"b", "a">>, <<" ", "B">>},
     rewards \in RewardLists}

\* the task lists handed to findTasksByReward
SearchTaskLists ==
  {<<>>}
  \cup {<<SearchTask("A", <<"b">>, <<"B">>, rewards)>> : rewards \in RewardLists}
  \cup {<<SearchTask("A", <<"b">>, <<"B">>, first),
          SearchTask("B", <<"b">>, <<"B">>, second)>> :
          first \in RewardLists, second \in RewardLists}

\* search terms: empty, plain, padded and upper-cased, blank, two characters
QueryInputs == { <<>>, <<"a">>, <<" ", "A", " ">>, <<" ">>, <<"b", "a">> }

\* trader filters: none, a trader name, the same name in another case
MerchantInputs ==
  { NullFilter, Merchant(<<"A", "b">>), Merchant(<<"a", "b">>), Merchant(<<"b">>) }

searchFrame ==
  UNCHANGED <<selectionVars, barVars, flowVars, surfaceVars, obsBarVars, obsFocusVars,
              obsViewVars, listVars>>

\* isTaskMatchedCombined is applied to a task and a filter triple
ApplyIsTaskMatchedCombined ==
  /\ lastCall.fn = "filters"
  /\ lastCall' = [lastCall EXCEPT
                    !.fn = "isTaskMatchedCombined",
                    !.out = isTaskMatchedCombined(lastCall.task, lastCall.searchTerm,
                                                  lastCall.rewardSearchTerm,
                                                  lastCall.merchantFilter)]
  /\ searchFrame

\* findTasksByReward is applied to a task list and a query
ApplyFindTasksByReward ==
  /\ lastCall.fn = "query"
  /\ lastCall' = [fn |-> "findTasksByReward", tasks |-> lastCall.tasks,
                  query |-> lastCall.query,
                  out |-> findTasksByReward(lastCall.tasks, lastCall.query)]
  /\ searchFrame

NextSearch ==
  \/ ApplyIsTaskMatchedCombined
  \/ ApplyFindTasksByReward

InitSearch ==
  /\ InitPage
  /\ elements = TaskIds
  /\ lastCall \in
       {[fn |-> "filters", task |-> task, searchTerm |-> searchTerm_,
         rewardSearchTerm |-> rewardSearchTerm_, merchantFilter |-> merchantFilter_,
         out |-> FALSE] :
          task \in SearchTasks, searchTerm_ \in QueryInputs,
          rewardSearchTerm_ \in QueryInputs, merchantFilter_ \in MerchantInputs}
       \cup {[fn |-> "query", tasks |-> tasks, query |-> query] :
               tasks \in SearchTaskLists, query \in QueryInputs}

SpecSearch == InitSearch /\ [][NextSearch]_vars

\* ------------------------------------------------ match state on the canvas
\* TaskFlow processedNodes: each node with its match state
processedNodes(rawNodes_, searchTerm_, rewardSearchTerm_, merchantFilter_) ==
  [i \in 1..Len(rawNodes_) |->
     [id |-> rawNodes_[i].id,
      matched |-> isTaskMatchedCombined(rawNodes_[i].data, searchTerm_,
                                        rewardSearchTerm_, merchantFilter_)]]

\* nodeMatchMap.get(id) ?? true
nodeMatch(processedNodes_, id) ==
  LET at == {i \in 1..Len(processedNodes_) : processedNodes_[i].id = id}
  IN IF at = {} THEN TRUE
     ELSE processedNodes_[CHOOSE i \in at : \A j \in at : j <= i].matched

\* processedEdges with || in the place of &&
processedEdgesEitherEnd(rawEdges_, processedNodes_) ==
  [i \in 1..Len(rawEdges_) |->
     LET isMatched == nodeMatch(processedNodes_, rawEdges_[i].source)
                        \/ nodeMatch(processedNodes_, rawEdges_[i].target)
     IN [source |-> rawEdges_[i].source, target |-> rawEdges_[i].target,
         opacity |-> IF isMatched THEN 10 ELSE 2,
         animated |-> isMatched]]

\* TaskFlow processedEdges: opacity in tenths (1 or 0.2), animated when matched
processedEdges(rawEdges_, processedNodes_) ==
  [i \in 1..Len(rawEdges_) |->
     LET sourceMatched == nodeMatch(processedNodes_, rawEdges_[i].source)
         targetMatched == nodeMatch(processedNodes_, rawEdges_[i].target)
         isMatched == sourceMatched /\ targetMatched
     IN [source |-> rawEdges_[i].source, target |-> rawEdges_[i].target,
         opacity |-> IF isMatched THEN 10 ELSE 2,
         animated |-> isMatched]]

\* the rawEdges prop: the page's edges, and the same with two edges that
\* have an endpoint outside the node set
EdgeInputs ==
  { rawEdges,
    rawEdges \o << [source |-> OutsideId, target |-> "C"],
                   [source |-> "A", target |-> OutsideId] >> }

\* the memo chain processedNodes -> processedEdges is run for a filter state
ApplyProcessedEdges ==
  /\ lastCall.fn = "filter state"
  /\ lastCall' =
       [lastCall EXCEPT
          !.fn = "processedEdges",
          !.out = processedEdges(lastCall.rawEdges,
                                 processedNodes(rawNodes, lastCall.searchTerm,
                                                lastCall.rewardSearchTerm,
                                                lastCall.merchantFilter))]
  /\ searchFrame

NextCanvas == ApplyProcessedEdges

InitCanvas ==
  /\ InitPage
  /\ elements = TaskIds
  /\ lastCall \in
       {[fn |-> "filter state", rawEdges |-> rawEdges_, searchTerm |-> searchTerm_,
         rewardSearchTerm |-> rewardSearchTerm_, merchantFilter |-> merchantFilter_,
         out |-> <<>>] :
          rawEdges_ \in EdgeInputs, searchTerm_ \in QueryInputs,
          rewardSearchTerm_ \in QueryInputs, merchantFilter_ \in MerchantInputs}

SpecCanvas == InitCanvas /\ [][NextCanvas]_vars

\* ------------------------------------------------- records lacking a field
\* The optional collections of a task record; a record that lacks one has
\* no such field (reading it gives undefined).
OptionalCollections == {"rewards", "objectives", "unlockRequirements"}

\* the task of taskDataArray with the collections in absent left out
PartialTask(task, absent) ==
  [f \in (DOMAIN task \cup {"objectives"}) \ absent |->
     IF f = "objectives" THEN <<>> ELSE task[f]]

\* the first n tasks of taskDataArray, each lacking any of its collections
PartialTaskLists ==
  UNION {{[i \in 1..n |-> PartialTask(taskDataArray[i], absent[i])] :
            absent \in [1..n -> SUBSET OptionalCollections]} :
         n \in 0..Min(MaxTasks, Len(taskDataArray))}

\* generateEdges: task.unlockRequirements.filter(...) on a record without
\* unlockRequirements calls a method of undefined, which throws a TypeError
generateEdgesThrows(tasks) ==
  \E i \in 1..Len(tasks) : "unlockRequirements" \notin DOMAIN tasks[i]

\* isTaskMatchedCombined: task.rewards.some(...) is reached when neither the
\* trader filter nor the name search has returned false and rewardSearchTerm
\* is not empty; without rewards it throws a TypeError
isTaskMatchedCombinedThrows(task, searchTerm_, rewardSearchTerm_, merchantFilter_) ==
  /\ ~(~merchantFilter_.isNull /\ merchantFilter_.name # <<>>
       /\ task.trader # merchantFilter_.name)
  /\ ~(searchTerm_ # <<>>
       /\ ~includes(normalizeString(task.taskName), normalizeString(searchTerm_))
       /\ ~includes(normalizeString(task.trader), normalizeString(searchTerm_)))
  /\ rewardSearchTerm_ # <<>>
  /\ "rewards" \notin DOMAIN task

\* findTasksByReward: task.rewards.forEach(...) is reached for every task
\* once the normalized query is not empty; without rewards it throws
findTasksByRewardThrows(tasks, query) ==
  /\ normalizeString(query) # <<>>
  /\ \E i \in 1..Len(tasks) : "rewards" \notin DOMAIN tasks[i]

NoResult == [threw |-> TRUE]

\* generateEdges is applied to a list of records
ApplyGenerateEdgesToRecords ==
  /\ lastCall.fn = "records"
  /\ lastCall' = [fn |-> "generateEdges(records)", tasks |-> lastCall.tasks,
                  out |-> IF generateEdgesThrows(lastCall.tasks) THEN NoResult
                          ELSE [threw |-> FALSE,
                                edges |-> generateEdges(lastCall.tasks)]]
  /\ searchFrame

\* isTaskMatchedCombined is applied to a record and a filter state
ApplyIsTaskMatchedCombinedToRecord ==
  /\ lastCall.fn = "record and filters"
  /\ lastCall' =
       [lastCall EXCEPT
          !.fn = "isTaskMatchedCombined(record)",
          !.out = IF isTaskMatchedCombinedThrows(lastCall.task, lastCall.searchTerm,
                                                 lastCall.rewardSearchTerm,
                                                 lastCall.merchantFilter)
                  THEN NoResult
                  ELSE [threw |-> FALSE,
                        matched |-> isTaskMatchedCombined(lastCall.task,
                                                          lastCall.searchTerm,
                                                          lastCall.rewardSearchTerm,
                                                          lastCall.merchantFilter)]]
  /\ searchFrame

\* findTasksByReward is applied to a list of records and a query
ApplyFindTasksByRewardToRecords ==
  /\ lastCall.fn = "records and query"
  /\ lastCall' =
       [lastCall EXCEPT
          !.fn = "findTasksByReward(records)",
          !.out = IF findTasksByRewardThrows(lastCall.tasks, lastCall.query)
                  THEN NoResult
                  ELSE [threw |-> FALSE,
                        result |-> findTasksByReward(lastCall.tasks, lastCall.query)]]
  /\ searchFrame

NextRecords ==
  \/ ApplyGenerateEdgesToRecords
  \/ ApplyIsTaskMatchedCombinedToRecord
  \/ ApplyFindTasksByRewardToRecords

InitRecords ==
  /\ InitPage
  /\ elements = TaskIds
  /\ lastCall \in
       {[fn |-> "records", tasks |-> tasks] : tasks \in PartialTaskLists}
       \cup {[fn |-> "record and filters", task |-> tasks[Len(tasks)],
              searchTerm |-> searchTerm_, rewardSearchTerm |-> rewardSearchTerm_,
              merchantFilter |-> merchantFilter_, out |-> NoResult] :
               tasks \in PartialTaskLists \ {<<>>}, searchTerm_ \in Inputs,
               rewardSearchTerm_ \in Inputs, merchantFilter_ \in MerchantInputs}
       \cup {[fn |-> "records and query", tasks |-> tasks, query |-> query,
              out |-> NoResult] :
               tasks \in PartialTaskLists, query \in Inputs}

SpecRecords == InitRecords /\ [][NextRecords]_vars

\* ------------------------------------------------------------------ claims
CurrentTerm(mode) == IF mode = "name" THEN searchTerm ELSE rewardSearchTerm

C2_EnterCommitsAndCancels ==
  enterCommit.valid =>
     /\ debounced.timerId = NoTimer
     /\ ~debounced.lastArgs.present
     /\ CurrentTerm(enterCommit.mode) = enterCommit.value

\* C2 witness: Enter committed a non-empty input while a debounced write
\* was pending.
C2_Witness ==
  /\ enterCommit.valid
  /\ enterCommit.cancelled.present
  /\ enterCommit.value # <<>>

\* C3: at most one of searchTerm and rewardSearchTerm is non-empty.
C3_TermsMutuallyExclusive ==
  searchTerm = <<>> \/ rewardSearchTerm = <<>>

\* C4: a render caused by a change of the filter state re-executes neither
\* the graph build nor the layout.
C4_FilterChangeKeepsLayout ==
  ("filters" \in lastRender.cause) => (~lastRender.build /\ ~lastRender.layout)

\* C5: after teardown no debounced write is pending and none has been
\* applied.
C5_NoWriteAfterTeardown ==
  ~mounted => (debounced.timerId = NoTimer /\ ~lateWrite)

\* C5 witness: the search bar was torn down while a debounced write was
\* pending.
C5_Witness == ~mounted /\ teardown = "pending"

\* C6: typing writes nothing synchronously; while the last keystroke of a
\* burst is less than debounceMs old no debounced write has happened, and
\* once debounceMs have passed exactly one has, with the last typed value.
C6_TypingIsDebounced ==
  burst.open =>
     /\ ~burst.sync
     /\ burst.writes <= 1
     /\ (burst.since < debounceMs => burst.writes = 0)
     /\ (burst.writes = 1 => /\ burst.written = Args(burst.value, burst.mode)
                             /\ burst.since >= debounceMs)
     /\ ((burst.since >= debounceMs /\ debounced.timerId # 0) => burst.writes = 1)

\* C6 witness: a burst of at least two keystrokes has been written.
C6_Witness ==
  /\ burst.open
  /\ burst.keys = 2
  /\ burst.writes = 1
  /\ burst.value # <<>>

\* C7: clearFilters resets the trader filter and both search terms and
\* leaves selectedTaskId and focusTaskId as they were.
C7_ClearFiltersFrame ==
  cleared.valid =>
     /\ merchantFilter = NullFilter
     /\ searchTerm = <<>>
     /\ rewardSearchTerm = <<>>
     /\ selectedTaskId = cleared.selectedTaskId
     /\ focusTaskId = cleared.focusTaskId

\* C7 witness: clearFilters ran with all three filters set, a task selected
\* and a focus request pending.
C7_Witness ==
  /\ cleared.valid
  /\ cleared.hadFilters
  /\ cleared.selectedTaskId # None
  /\ cleared.focusTaskId # None

\* C8: panToNode returns true and calls setCenter exactly once if and only if
\* the handle is present and the node id is one of the graph's nodes; in
\* every other case it returns false, calls setCenter zero times and does
\* not throw.
C8_PanToNodeTotal ==
  lastOp.op = "panToNode" =>
     /\ ~lastOp.threw
     /\ lastOp.result = (lastOp.instancePresent /\ lastOp.nodeKnown)
     /\ lastOp.setCenterCalls = (IF lastOp.result THEN 1 ELSE 0)
     /\ (lastOp.result => viewport.kind = "setCenter")

\* C8 witnesses: a successful pan, and a refused one for an unknown node
C8_Witness ==
  /\ lastOp.op = "panToNode"
  /\ lastOp.instancePresent
  /\ ~lastOp.nodeKnown
  /\ ~lastOp.result
  /\ viewport.kind = "setCenter"

\* C9: panToNodeAndHighlight returns panToNode's result; when it is true the
\* highlight is not run before the pan duration has elapsed and is run once
\* it has elapsed, marking the element if it is rendered; when it is false
\* no highlight is scheduled or run.
C9_HighlightAfterPan ==
  lastPan.active =>
     /\ lastPan.result = lastPan.panResult
     /\ (lastPan.result =>
           /\ lastPan.scheduled = 1
           /\ (lastPan.elapsed < lastPan.panDuration =>
                 /\ ~lastPan.ran
                 /\ (lastPan.clean => lastPan.nodeId \notin highlighted))
           /\ ((lastPan.elapsed >= lastPan.panDuration /\ NoDueViewTimer) =>
                 lastPan.ran)
           /\ ((lastPan.ran /\ lastPan.rendered) => lastPan.applied))
     /\ (~lastPan.result =>
           /\ lastPan.scheduled = 0
           /\ ~lastPan.ran
           /\ ~lastPan.applied)

\* C9 witness: a successful call whose deferred highlight has marked the
\* rendered element after the pan duration
C9_Witness ==
  /\ lastPan.active
  /\ lastPan.result
  /\ lastPan.clean
  /\ lastPan.ran
  /\ lastPan.applied
  /\ lastPan.elapsed >= lastPan.panDuration
  /\ lastPan.nodeId \in highlighted

\* C10: after highlightNode on a rendered element the marker is present
\* immediately and absent once the duration has elapsed.
C10_HighlightExpires ==
  (lastHighlight.active /\ lastHighlight.found) =>
     /\ (lastHighlight.fresh => lastHighlight.nodeId \in highlighted)
     /\ ((lastHighlight.elapsed >= lastHighlight.duration /\ NoDueViewTimer) =>
           lastHighlight.nodeId \notin highlighted)

\* C10 witness: the duration of the latest highlightNode call on a rendered
\* element has elapsed and its removal callback has run
C10_Witness ==
  /\ lastHighlight.active
  /\ lastHighlight.found
  /\ lastHighlight.nodeId \in elements
  /\ lastHighlight.elapsed >= lastHighlight.duration
  /\ lastHighlight.duration = 1000
  /\ NoDueViewTimer

\* the pending removal callbacks of a node
pendingRemovals(ts, nodeId) ==
  {i \in 1..Len(ts) : ts[i].kind = "remove" /\ ts[i].nodeId = nodeId}

\* C11: a highlightNode call on a rendered node leaves every pending callback
\* as it was and adds one removal of its own with its own duration; a marked
\* node always has a removal pending, so the marker is absent once the last
\* pending removal has fired.
C11_RemovalsIndependent ==
  /\ [](\A nodeId \in highlighted : pendingRemovals(timers, nodeId) # {})
  /\ [][(NoDueViewTimer /\ lastOp'.op = "highlightNode") =>
          /\ SubSeq(timers', 1, Len(timers)) = timers
          /\ (lastHighlight'.found =>
                /\ Len(timers') = Len(timers) + 1
                /\ timers'[Len(timers')].kind = "remove"
                /\ timers'[Len(timers')].nodeId = lastHighlight'.nodeId
                /\ timers'[Len(timers')].rem = lastHighlight'.duration)]_vars

\* C11 witness: highlightNode has just run on a node whose earlier removal,
\* due at another time, is still pending
C11_Witness ==
  /\ lastOp.op = "highlightNode"
  /\ Len(timers) = 2
  /\ pendingRemovals(timers, "A") = {1, 2}
  /\ timers[1].rem # timers[2].rem
  /\ "A" \in highlighted

\* C12: after a click on a row of the task list, selectedTaskId and
\* focusTaskId of the shared selection state are the row's task id.
C12_RowClickSelectsAndFocuses ==
  listClick.valid =>
     /\ selectedTaskId = listClick.taskId
     /\ focusTaskId = listClick.taskId

\* C13: for every filter state the task list marks a task as matched exactly
\* when the canvas marks its node as matched.
C13_ListMatchesCanvas ==
  matchedTaskIds(taskDataArray, merchantFilter, searchTerm)
    = canvasMatchedIds(merchantFilter, searchTerm, rewardSearchTerm)

\* the task-type prerequisites a task collection declares for a task
declaredPrerequisites(tasks, taskId) ==
  {tasks[i].unlockRequirements[k].taskId :
     <<i, k>> \in {<<i, k>> \in (1..Len(tasks)) \X (1..(MaxReqs + 2)) :
                     /\ tasks[i].taskId = taskId
                     /\ k <= Len(tasks[i].unlockRequirements)
                     /\ tasks[i].unlockRequirements[k].type = "task"}}

collectionIds(tasks) == {tasks[i].taskId : i \in 1..Len(tasks)}

\* C14: generateEdges(T) has an edge p -> t exactly when t is in T, t
\* declares a task requirement on p and p is the id of a task of T; a
\* prerequisite outside T yields no edge.
C14_EdgesIffDeclaredWithinSet ==
  lastCall.fn = "generateEdges" =>
     \A source \in ApiIds \cup {OutsideId}, target \in ApiIds \cup {OutsideId} :
        (\E i \in 1..Len(lastCall.edges) :
            lastCall.edges[i].source = source /\ lastCall.edges[i].target = target)
        <=> /\ target \in collectionIds(lastCall.tasks)
            /\ source \in collectionIds(lastCall.tasks)
            /\ source \in declaredPrerequisites(lastCall.tasks, target)

\* C14 witness: a collection with a prerequisite inside it and one outside it
C14_Witness ==
  /\ lastCall.fn = "generateEdges"
  /\ Len(lastCall.edges) = 1
  /\ lastCall.edges[1].source # lastCall.edges[1].target
  /\ OutsideId \in declaredPrerequisites(lastCall.tasks, lastCall.edges[1].target)

\* C15: for every task collection, no edge produced by generateEdges has its
\* source equal to its target.
C15_NoSelfLoop ==
  lastCall.fn = "generateEdges" =>
     \A i \in 1..Len(lastCall.edges) :
        lastCall.edges[i].source # lastCall.edges[i].target

\* C16: after transformTasksData, a task appears exactly once in the
\* followUpTasks of each of its prerequisites that is in the collection.
C16_FollowUpDuality ==
  lastCall.fn = "transformTasksData" =>
     \A t \in 1..Len(lastCall.tasks), p \in 1..Len(lastCall.out) :
        (\E k \in 1..Len(lastCall.tasks[t].taskRequirements) :
            lastCall.tasks[t].taskRequirements[k] = lastCall.out[p].taskId)
        => Cardinality({k \in 1..Len(lastCall.out[p].followUpTasks) :
                          lastCall.out[p].followUpTasks[k].taskId = lastCall.tasks[t].id})
           = 1

\* the nodes without an incoming edge
rootIds(nodes, edges) ==
  {nodes[i].id : i \in 1..Len(nodes)} \ {edges[i].target : i \in 1..Len(edges)}

\* C17: findStartNodeId returns a node without incoming edge when there is
\* one, the first node when every node has an incoming edge, and nothing
\* for an empty node list.
C17_StartNodeIsRoot ==
  lastCall.fn = "findStartNodeId" =>
     /\ (rootIds(lastCall.nodes, lastCall.edges) # {} =>
           lastCall.out \in rootIds(lastCall.nodes, lastCall.edges))
     /\ ((lastCall.nodes # <<>> /\ rootIds(lastCall.nodes, lastCall.edges) = {}) =>
           lastCall.out = lastCall.nodes[1].id)
     /\ (lastCall.nodes = <<>> => lastCall.out = None)

\* C17 witness: the first node has an incoming edge and a later node has none
C17_Witness ==
  /\ lastCall.fn = "findStartNodeId"
  /\ Len(lastCall.nodes) > 1
  /\ lastCall.nodes[1].id \notin rootIds(lastCall.nodes, lastCall.edges)
  /\ lastCall.out \in rootIds(lastCall.nodes, lastCall.edges)

\* the x coordinate the layout gives to a node
layoutX(nodes, nodeId) ==
  nodes[CHOOSE i \in 1..Len(nodes) : nodes[i].id = nodeId].position.x

rewardContains(reward, q) ==
  \/ (reward.description.present /\ includes(toLowerCase(reward.description.text), q))
  \/ (reward.value.isString /\ includes(toLowerCase(reward.value.text), q))

\* C19: isTaskMatchedCombined is true exactly when the trader filter is none
\* or equals the trader name, the search term is empty or its trimmed
\* lower-cased form is contained in the lower-cased task or trader name, and
\* the reward term is empty or a reward matches it; with no filter it is true.
C19_CombinedIsConjunction ==
  lastCall.fn = "isTaskMatchedCombined" =>
     LET task == lastCall.task
         term == trim(toLowerCase(lastCall.searchTerm))
         rewardTerm == trim(toLowerCase(lastCall.rewardSearchTerm))
         merchantOk == lastCall.merchantFilter.isNull
                         \/ task.trader = lastCall.merchantFilter.name
         nameOk == lastCall.searchTerm = <<>>
                     \/ includes(toLowerCase(task.taskName), term)
                     \/ includes(toLowerCase(task.trader), term)
         rewardOk == lastCall.rewardSearchTerm = <<>>
                       \/ \E i \in 1..Len(task.rewards) :
                             rewardContains(task.rewards[i], rewardTerm)
     IN /\ lastCall.out = (merchantOk /\ nameOk /\ rewardOk)
        /\ ((lastCall.merchantFilter.isNull /\ lastCall.searchTerm = <<>>
             /\ lastCall.rewardSearchTerm = <<>>) => lastCall.out)

\* C19 witness: a task rejected by the trader filter alone, the filter
\* differing from the trader name only in case
C19_Witness ==
  /\ lastCall.fn = "isTaskMatchedCombined"
  /\ ~lastCall.out
  /\ ~lastCall.merchantFilter.isNull
  /\ toLowerCase(lastCall.merchantFilter.name) = toLowerCase(lastCall.task.trader)
  /\ lastCall.searchTerm = <<"a">>
  /\ lastCall.rewardSearchTerm = <<"a">>
  /\ isTaskMatchedCombined(lastCall.task, lastCall.searchTerm,
                           lastCall.rewardSearchTerm, NullFilter)

\* C20: findTasksByReward returns nothing for an empty or blank query; for
\* any other query a task is in the result exactly when one of its rewards
\* has a description or a textual value containing the trimmed lower-cased
\* query.
C20_RewardSearchResult ==
  lastCall.fn = "findTasksByReward" =>
     LET q == trim(toLowerCase(lastCall.query))
         out == lastCall.out
         expected == {lastCall.tasks[i].taskId :
                        i \in {j \in 1..Len(lastCall.tasks) :
                                 \E k \in 1..Len(lastCall.tasks[j].rewards) :
                                    rewardContains(lastCall.tasks[j].rewards[k], q)}}
     IN IF q = <<>>
        THEN out.matchedIds = <<>> /\ out.matches = <<>>
        ELSE /\ {out.matchedIds[i] : i \in 1..Len(out.matchedIds)} = expected
             /\ {out.matches[i].taskId : i \in 1..Len(out.matches)} = expected

\* C20 witnesses: a blank query on tasks with rewards, and a padded
\* upper-case query that finds one of two tasks
C20_BlankWitness ==
  /\ lastCall.fn = "findTasksByReward"
  /\ lastCall.query = <<" ">>
  /\ Len(lastCall.tasks) = 2
  /\ Len(lastCall.tasks[1].rewards) > 0
  /\ lastCall.out.matchedIds = <<>>

C20_Witness ==
  /\ lastCall.fn = "findTasksByReward"
  /\ lastCall.query = <<" ", "A", " ">>
  /\ Len(lastCall.tasks) = 2
  /\ lastCall.out.matchedIds = <<"B">>

\* the score the scoring rule gives one matched reward: 100 for an exact
\* match of the normalized description or textual value, 50 for a prefix
\* match, 10 otherwise
scoreOfReward(reward, q) ==
  LET hasDescription == reward.description.present
      description == trim(toLowerCase(reward.description.text))
      hasText == reward.value.isString
      text == trim(toLowerCase(reward.value.text))
  IN IF (hasDescription /\ description = q) \/ (hasText /\ text = q) THEN 100
     ELSE IF (hasDescription /\ startsWith(description, q))
             \/ (hasText /\ startsWith(text, q)) THEN 50
     ELSE 10

RECURSIVE scoreOfTask(_, _)
scoreOfTask(rewards, q) ==
  IF rewards = <<>> THEN 0
  ELSE (IF rewardContains(Head(rewards), q) THEN scoreOfReward(Head(rewards), q) ELSE 0)
       + scoreOfTask(Tail(rewards), q)

\* the position of a task in the list handed to findTasksByReward
inputIndex(tasks, taskId) ==
  CHOOSE i \in 1..Len(tasks) : tasks[i].taskId = taskId

\* C21: the score of every task in findTasksByReward's output is the sum,
\* over its matched rewards, of 100 for an exact match of the normalized
\* description or textual value, else 50 for a prefix match, else 10.
C21_ScoreIsSumOfRewardScores ==
  lastCall.fn = "findTasksByReward" =>
     LET q == trim(toLowerCase(lastCall.query))
         matches == lastCall.out.matches
     IN \A i \in 1..Len(matches) :
           matches[i].score
             = scoreOfTask(lastCall.tasks[inputIndex(lastCall.tasks,
                                                     matches[i].taskId)].rewards, q)

\* C21 witness: a task scored 150 from an exact and a prefix match, beside a
\* task scored 10 from a substring match
C21_Witness ==
  /\ lastCall.fn = "findTasksByReward"
  /\ \E i \in 1..Len(lastCall.out.matches) :
        /\ lastCall.out.matches[i].score = 150
        /\ Len(lastCall.out.matches[i].matchedRewards) = 2
  /\ \E i \in 1..Len(lastCall.out.matches) : lastCall.out.matches[i].score = 10

\* C22: matches are in non-increasing score order, tasks of equal score keep
\* their input order, matchedIds lists the tasks of matches in the same
\* order, and the function applied again to the same input gives the same
\* result.
C22_SortedStableAligned ==
  lastCall.fn = "findTasksByReward" =>
     LET matches == lastCall.out.matches
         matchedIds == lastCall.out.matchedIds
     IN /\ \A i \in 1..Len(matches), j \in 1..Len(matches) :
              i < j =>
                /\ matches[i].score >= matches[j].score
                /\ matches[i].score = matches[j].score
                     => inputIndex(lastCall.tasks, matches[i].taskId)
                          < inputIndex(lastCall.tasks, matches[j].taskId)
        /\ Len(matchedIds) = Len(matches)
        /\ \A i \in 1..Len(matches) : matchedIds[i] = matches[i].taskId
        /\ findTasksByReward(lastCall.tasks, lastCall.query) = lastCall.out

\* C22 witnesses: two tasks swapped by the sort, and two tasks of equal score
C22_Witness ==
  /\ lastCall.fn = "findTasksByReward"
  /\ lastCall.out.matchedIds = <<"B", "A">>
  /\ lastCall.out.matches[1].score > lastCall.out.matches[2].score

C22_TieWitness ==
  /\ lastCall.fn = "findTasksByReward"
  /\ lastCall.out.matchedIds = <<"A", "B">>
  /\ lastCall.out.matches[1].score = lastCall.out.matches[2].score
  /\ lastCall.out.matches[1].matchedRewards # lastCall.out.matches[2].matchedRewards

\* a reward description equals, or merely contains, the normalized query
descriptionEquals(reward, q) ==
  reward.description.present /\ trim(toLowerCase(reward.description.text)) = q

descriptionContains(reward, q) ==
  reward.description.present /\ includes(toLowerCase(reward.description.text), q)

outputIndex(matchedIds, taskId) ==
  CHOOSE i \in 1..Len(matchedIds) : matchedIds[i] = taskId

\* C23 as stated: a task with a reward whose description equals the query
\* is placed before every task whose reward descriptions merely contain it.
C23_ExactBeforeContaining ==
  lastCall.fn = "findTasksByReward" =>
     LET q == trim(toLowerCase(lastCall.query))
         tasks == lastCall.tasks
         matchedIds == lastCall.out.matchedIds
     IN q # <<>> =>
        \A x \in 1..Len(tasks), y \in 1..Len(tasks) :
           ( /\ \E k \in 1..Len(tasks[x].rewards) :
                   descriptionEquals(tasks[x].rewards[k], q)
             /\ \A k \in 1..Len(tasks[y].rewards) :
                   ~descriptionEquals(tasks[y].rewards[k], q)
             /\ \E k \in 1..Len(tasks[y].rewards) :
                   descriptionContains(tasks[y].rewards[k], q) )
           => outputIndex(matchedIds, tasks[x].taskId)
                < outputIndex(matchedIds, tasks[y].taskId)

\* C23 amended: a task with a reward whose description equals the query is
\* placed before every task whose matched rewards are fewer than ten and all
\* match by substring only (neither exactly nor by prefix).
C23_ExactBeforeSubstringOnly ==
  lastCall.fn = "findTasksByReward" =>
     LET q == trim(toLowerCase(lastCall.query))
         tasks == lastCall.tasks
         matchedIds == lastCall.out.matchedIds
         matched(y) == {k \in 1..Len(tasks[y].rewards) :
                          rewardContains(tasks[y].rewards[k], q)}
     IN q # <<>> =>
        \A x \in 1..Len(tasks), y \in 1..Len(tasks) :
           ( /\ \E k \in 1..Len(tasks[x].rewards) :
                   descriptionEquals(tasks[x].rewards[k], q)
             /\ matched(y) # {}
             /\ Cardinality(matched(y)) < 10
             /\ \A k \in matched(y) : scoreOfReward(tasks[y].rewards[k], q) = 10 )
           => outputIndex(matchedIds, tasks[x].taskId)
                < outputIndex(matchedIds, tasks[y].taskId)

\* C23 witness: the exact-match task comes second in the input and first in
\* the output, the other task matching by substring only
C23_Witness ==
  /\ lastCall.fn = "findTasksByReward"
  /\ lastCall.query = <<"a">>
  /\ Len(lastCall.tasks) = 2
  /\ \E k \in 1..Len(lastCall.tasks[2].rewards) :
        descriptionEquals(lastCall.tasks[2].rewards[k], <<"a">>)
  /\ lastCall.out.matchedIds = <<"B", "A">>
  /\ lastCall.out.matches[2].score = 10

\* a record with each absent collection taken as empty
withEmptyCollections(task) ==
  [f \in DOMAIN task \cup OptionalCollections |->
     IF f \in DOMAIN task THEN task[f] ELSE <<>>]

\* C24: generateEdges, isTaskMatchedCombined and findTasksByReward never
\* throw on a record lacking rewards, objectives or unlockRequirements, and
\* give what they give for the record with the absent collection empty.
C24_AbsentCollectionsAreEmpty ==
  /\ lastCall.fn = "generateEdges(records)" =>
       /\ ~lastCall.out.threw
       /\ lastCall.out.edges
            = generateEdges([i \in 1..Len(lastCall.tasks) |->
                               withEmptyCollections(lastCall.tasks[i])])
  /\ lastCall.fn = "isTaskMatchedCombined(record)" =>
       /\ ~lastCall.out.threw
       /\ lastCall.out.matched
            = isTaskMatchedCombined(withEmptyCollections(lastCall.task),
                                    lastCall.searchTerm, lastCall.rewardSearchTerm,
                                    lastCall.merchantFilter)
  /\ lastCall.fn = "findTasksByReward(records)" =>
       /\ ~lastCall.out.threw
       /\ lastCall.out.result
            = findTasksByReward([i \in 1..Len(lastCall.tasks) |->
                                   withEmptyCollections(lastCall.tasks[i])],
                                lastCall.query)

\* C25: after a search-mode switch both terms are empty, and stay empty
\* until the user types, presses Enter or clicks a result; a debounced write
\* scheduled before the switch is not applied afterwards.
C25_EmptyAfterModeSwitch ==
  modeSwitch => (searchTerm = <<>> /\ rewardSearchTerm = <<>>)

C27_PanCentresOnLaidOutBox ==
  (viewport.kind = "setCenter" /\ viewport.zoom \in {TaskFlowPanOptions.zoom, 18}) =>
     \E i \in 1..Len(layoutedNodes) :
        /\ viewport.x = layoutedNodes[i].position.x
                          + TaskFlowLayoutOptions.nodeWidth \div 2
        /\ viewport.y = layoutedNodes[i].position.y
                          + TaskFlowLayoutOptions.nodeHeight \div 2

\* a node id is outside the node set, or its task is matched by the filters
\* of the last call
endpointMatched(id) ==
  \A i \in 1..Len(taskDataArray) :
     taskDataArray[i].taskId = id
       => isTaskMatchedCombined(taskDataArray[i], lastCall.searchTerm,
                                lastCall.rewardSearchTerm, lastCall.merchantFilter)

\* C28: an edge is marked matched (full opacity, animated) exactly when its
\* source and its target are both matched under the filter state, an
\* endpoint outside the node set counting as matched.
C28_EdgeMatchedIffBothEnds ==
  lastCall.fn = "processedEdges" =>
     /\ Len(lastCall.out) = Len(lastCall.rawEdges)
     /\ \A i \in 1..Len(lastCall.out) :
           LET edge == lastCall.out[i]
               both == endpointMatched(edge.source) /\ endpointMatched(edge.target)
           IN /\ edge.source = lastCall.rawEdges[i].source
              /\ edge.target = lastCall.rawEdges[i].target
              /\ edge.animated = both
              /\ edge.opacity = (IF both THEN 10 ELSE 2)

\* C28 witness: under one filter state an edge with an outside endpoint is
\* matched, an edge is dimmed for its source alone and another for its target
C28_Witness ==
  /\ lastCall.fn = "processedEdges"
  /\ \E i \in 1..Len(lastCall.out) :
        /\ lastCall.out[i].source = OutsideId
        /\ lastCall.out[i].animated
  /\ \E i \in 1..Len(lastCall.out) :
        /\ ~lastCall.out[i].animated
        /\ endpointMatched(lastCall.out[i].target)
  /\ \E i \in 1..Len(lastCall.out) :
        /\ ~lastCall.out[i].animated
        /\ lastCall.out[i].target = OutsideId

\* the first task, in input order, matched under the applied filter state
firstMatchedTaskId ==
  LET matched == {i \in 1..Len(taskDataArray) :
                    isTaskMatchedCombined(taskDataArray[i], searchTerm,
                                          rewardSearchTerm, merchantFilter)}
  IN IF matched = {} THEN None
     ELSE taskDataArray[CHOOSE i \in matched : \A j \in matched : i <= j].taskId

searchCalls(calls) == SelectSeq(calls, LAMBDA c : c.by = "search")

\* C29: a render that recomputes the matched set with the handle present
\* and a non-empty applied term starts one pan+highlight, to the first
\* matched node in input order; it starts none when no node is matched or
\* both terms are empty.
C29_SearchPansToFirstMatch ==
  [][("filters" \in dirty /\ "filters" \notin dirty') =>
       LET started == searchCalls(lastRender'.calls)
       IN /\ (reactFlowInstance /\ (searchTerm # <<>> \/ rewardSearchTerm # <<>>)
              /\ firstMatchedTaskId # None)
               => /\ Len(started) = 1
                  /\ started[1].nodeId = firstMatchedTaskId
                  /\ started[1].result
                  /\ started[1].timeouts # <<>>
          /\ ((searchTerm = <<>> /\ rewardSearchTerm = <<>>) \/ firstMatchedTaskId = None)
               => started = <<>>]_vars

\* C29 witness: the search effect has panned to C, the only matched node,
\* which is not the first node of the graph
C29_Witness ==
  /\ reactFlowInstance
  /\ searchCalls(lastRender.calls) # <<>>
  /\ searchCalls(lastRender.calls)[1].nodeId = "C"
  /\ viewport.kind = "setCenter"
  /\ viewport.zoom = TaskFlowPanOptions.zoom

\* C30: a whitespace-only searchTerm or rewardSearchTerm gives the result
\* the empty term gives, for every task and trader filter.
C30_BlankTermLikeEmpty ==
  lastCall.fn = "isTaskMatchedCombined" =>
     /\ lastCall.searchTerm = <<" ">>
          => lastCall.out = isTaskMatchedCombined(lastCall.task, <<>>,
                                                  lastCall.rewardSearchTerm,
                                                  lastCall.merchantFilter)
     /\ lastCall.rewardSearchTerm = <<" ">>
          => lastCall.out = isTaskMatchedCombined(lastCall.task, lastCall.searchTerm,
                                                  <<>>, lastCall.merchantFilter)

====
